---- MODULE Spec2Model ----
(***************************************************************************)
(* The messaging application's relational store (tables, constraints and   *)
(* row-level-security policies of supabase/migrations) and the client      *)
(* handlers that drive it (UserSearch, NotificationBell, ChatList,         *)
(* ChatWindow, Home).                                                      *)
(*                                                                         *)
(* Spec      : the application.  Every await of a handler is one step, so  *)
(*             handlers of different clients interleave between awaits.    *)
(*             Each identity runs one client, one handler at a time.       *)
(* SpecStore : the store alone.  Any identity issues any insert, update    *)
(*             or delete on conversations and messages and on friendships; *)
(*             the policies and constraints decide.                        *)
(* SpecFriendStore, SpecNotificationStore, SpecProfileStore : the same for *)
(*             friendships, notifications and profiles.                    *)
(* SpecChat, SpecSessions : the chat window; two sessions of one identity. *)
(* SpecSearch, SpecSettings, SpecUpload : UserSearch, ProfileSettings and  *)
(*             the two upload handlers.                                    *)
(* SpecIntegrity : every table at once, with identities being removed.     *)
(* SpecSwitch, SpecWindow : the chat window when the shown friend is       *)
(*             switched; its message list, fetch and change feed.          *)
(* SpecList, SpecTimestamps : the chat list with overlapping fetches; the  *)
(*             tables' timestamp columns, defaults and touch triggers.     *)
(***************************************************************************)
EXTENDS Integers, FiniteSets, Sequences, TLC

\* ------------------------------------------------------------- bounds
\* identities known to the identity provider
NumIdentities == 3
\* identities that run a client of the application (1..NumClients)
NumClients == 2
\* friendship rows ever inserted by the application (ids are fresh, never reused)
MaxFriendshipId == 2
\* friendship rows ever inserted by direct requests to the store
MaxStoreFriendshipId == 1
\* conversation rows ever inserted
MaxConversationId == 2
\* message rows ever inserted
MaxMessageId == 1
\* notification rows ever inserted by direct requests to the store
MaxStoreNotificationId == 1
\* calls of fetchOrCreateConversation that the log counts (saturating)
GocLogCap == 2

Identities == 1..NumIdentities
Clients == 1..NumClients
NULL == 0

VARIABLES
  friendships,     \* public.friendships rows
  notifications,   \* public.notifications rows
  conversations,   \* public.conversations rows
  messages,        \* public.messages rows
  nextId,          \* gen_random_uuid(): the next fresh id of each table
  pc,              \* per client: the await its running handler is at
  arg,             \* per client: the running handler's locals
  notifs,          \* per client: NotificationBell's notifications state
  friends,         \* per client: ChatList's friends state
  selectedFriend,  \* per client: Home's selectedFriend state
  conversationId,  \* per client: ChatWindow's conversationId state
  gocLog,          \* history: results of fetchOrCreateConversation per (caller, friend)
  ev,              \* what the last step reported (a toast, a return value, a store verdict)
  users,           \* auth.users: the identities that exist
  profiles,        \* public.profiles rows
  objects,         \* storage.objects of the bucket chat-media
  form,            \* per client: ProfileSettings' profile and username state, the chosen file
  results,         \* per client: UserSearch's results state
  window,          \* per client: ChatWindow's messages and loading state, its channel
  fetches,         \* per client: ChatList's running fetchFriends calls
  times            \* the database clock and, per table, a row's timestamp columns

store == <<friendships, notifications, conversations, messages, nextId>>
client == <<pc, arg, notifs, friends, selectedFriend, conversationId>>
account == <<users, profiles, objects, form, results, window, fetches, times>>
vars == <<friendships, notifications, conversations, messages, nextId,
          pc, arg, notifs, friends, selectedFriend, conversationId, gocLog, ev,
          users, profiles, objects, form, results, window, fetches, times>>

\* ------------------------------------------------------------- schema
\* CREATE TYPE public.friendship_status
FriendshipStatus == {"pending", "accepted", "blocked"}

\* UNIQUE(requester_id, addressee_id)
FriendshipUnique(rows, f) ==
  ~ \E g \in rows : g.requester_id = f.requester_id /\ g.addressee_id = f.addressee_id

\* mutant: the table has no uniqueness constraint
ConversationUnique_Absent(rows, c) == TRUE
\* mutant: the constraint covers the unordered pair
ConversationUnique_Unordered(rows, c) ==
  ~ \E d \in rows : {d.participant1_id, d.participant2_id}
                      = {c.participant1_id, c.participant2_id}
\* UNIQUE(participant1_id, participant2_id)
ConversationUnique(rows, c) ==
  ~ \E d \in rows : d.participant1_id = c.participant1_id
                    /\ d.participant2_id = c.participant2_id

\* REFERENCES auth.users(id): the value names an existing identity
ReferencesUser(us, id) == id \in us

\* mutant: the foreign key has no ON DELETE CASCADE action
NotificationsAfterCascade_Kept(ns, fs) == ns
\* notifications.friendship_id REFERENCES friendships(id) ON DELETE CASCADE
NotificationsAfterCascade(ns, fs) ==
  {n \in ns : n.friendship_id = NULL \/ \E f \in fs : f.id = n.friendship_id}

\* mutant: the foreign key has no ON DELETE CASCADE action
MessagesAfterCascade_Kept(ms, cs) == ms
\* messages.conversation_id REFERENCES conversations(id) ON DELETE CASCADE
MessagesAfterCascade(ms, cs) ==
  {m \in ms : \E c \in cs : c.id = m.conversation_id}

\* ------------------------------------------------------------- policies
\* "Users can view their friendships"
FriendshipSelectUsing(uid, f) == uid = f.requester_id \/ uid = f.addressee_id
\* mutant: the check names the addressee
FriendshipInsertCheck_Addressee(uid, f) == uid = f.addressee_id
\* "Users can send friend requests"
FriendshipInsertCheck(uid, f) == uid = f.requester_id
\* "Users can update friendships they are part of"
FriendshipUpdateUsing(uid, f) == uid = f.requester_id \/ uid = f.addressee_id
\* "Users can delete their friendships"
FriendshipDeleteUsing(uid, f) == uid = f.requester_id \/ uid = f.addressee_id

\* "Users can view their conversations"
ConversationSelectUsing(uid, c) == uid = c.participant1_id \/ uid = c.participant2_id
\* "Users can create conversations"
ConversationInsertCheck(uid, c) == uid = c.participant1_id \/ uid = c.participant2_id
\* "Users can delete their conversations" (second migration)
ConversationDeleteUsing(uid, c) == uid = c.participant1_id \/ uid = c.participant2_id
\* conversations has no UPDATE policy: row-level security denies the command
ConversationUpdateUsing(uid, c) == FALSE

\* "Users can view their notifications"
NotificationSelectUsing(uid, n) == uid = n.user_id
\* mutant: the check names the recipient
NotificationInsertCheck_Recipient(uid, n) == uid = n.user_id
\* "Users can create notifications"
NotificationInsertCheck(uid, n) == uid = n.from_user_id
\* "Users can update their notifications" (USING; with no WITH CHECK it is also
\* the check of the new row)
NotificationUpdateUsing(uid, n) == uid = n.user_id
\* "Users can delete their notifications"
NotificationDeleteUsing(uid, n) == uid = n.user_id

\* mutant: the sub-select lacks its join condition id = conversation_id
MessageSelectUsing_Uncorrelated(uid, m, cs) ==
  \E c \in {d \in cs : ConversationSelectUsing(uid, d)} :
    c.participant1_id = uid \/ c.participant2_id = uid
\* "Users can view messages in their conversations"; the sub-select on
\* conversations runs under the caller's own conversations policy
MessageSelectUsing(uid, m, cs) ==
  \E c \in {d \in cs : ConversationSelectUsing(uid, d)} :
    c.id = m.conversation_id /\ (c.participant1_id = uid \/ c.participant2_id = uid)
\* mutant: the check lacks auth.uid() = sender_id
MessageInsertCheck_AnySender(uid, m, cs) ==
  \E c \in {d \in cs : ConversationSelectUsing(uid, d)} :
    c.id = m.conversation_id /\ (c.participant1_id = uid \/ c.participant2_id = uid)
\* "Users can send messages in their conversations"
MessageInsertCheck(uid, m, cs) ==
  /\ uid = m.sender_id
  /\ \E c \in {d \in cs : ConversationSelectUsing(uid, d)} :
       c.id = m.conversation_id /\ (c.participant1_id = uid \/ c.participant2_id = uid)
\* "Users can update their own messages" (USING; with no WITH CHECK it is also
\* the check of the new row)
MessageUpdateUsing(uid, m) == uid = m.sender_id

\* ---- profiles: the select policies the three migrations leave in force
OpenPolicy == "Profiles are viewable by authenticated users"
FriendsPolicy == "Users can view their own profile and friends profiles"
RelevantPolicy == "Users can view relevant profiles"
ConnectedPolicy == "Users can view their own profile and connected profiles"

\* the EXISTS sub-select of the profile policies: a friendship between the two,
\* in either direction
Connects(f, uid, owner) ==
  \/ f.requester_id = uid /\ f.addressee_id = owner
  \/ f.addressee_id = uid /\ f.requester_id = owner

\* 20260110153610: CREATE POLICY "Profiles are viewable by authenticated users"
Migration1(ps) == ps \cup {OpenPolicy}
\* mutant: DROP POLICY IF EXISTS names no existing policy and drops nothing
Migration2_DropsNothing(ps) == ps \cup {FriendsPolicy}
\* 20260111005509: DROP the open policy, CREATE the accepted-friends policy
Migration2(ps) == (ps \ {OpenPolicy}) \cup {FriendsPolicy}
\* 20260111005517: DROP the friends policy, CREATE and DROP "relevant", CREATE "connected"
Migration3(ps) ==
  ((((ps \ {FriendsPolicy}) \cup {RelevantPolicy}) \ {RelevantPolicy}) \cup {ConnectedPolicy})

\* migrations run in the order of their timestamps
ProfileSelectPolicies == Migration3(Migration2(Migration1({})))

\* the USING expression of each profile select policy; the sub-select on
\* friendships runs under the caller's own friendships policy
ProfilePolicyUsing(name, uid, owner, fs) ==
  LET visible == {f \in fs : FriendshipSelectUsing(uid, f)} IN
  CASE name = OpenPolicy -> TRUE
    [] name = FriendsPolicy ->
         uid = owner \/ \E f \in visible : f.status = "accepted" /\ Connects(f, uid, owner)
    [] name = RelevantPolicy ->
         uid = owner \/ \E f \in visible : Connects(f, uid, owner)
    [] name = ConnectedPolicy ->
         uid = owner \/ \E f \in visible : Connects(f, uid, owner)
    [] OTHER -> FALSE

\* row-level security ORs the (permissive) policies of a command
ProfileSelectUsing(uid, owner, fs) ==
  \E name \in ProfileSelectPolicies : ProfilePolicyUsing(name, uid, owner, fs)

\* one profile per identity, created at sign-up
Profiles == Identities

\* select user_id from profiles, as uid
ProfileSelect(uid, fs) == {owner \in Profiles : ProfileSelectUsing(uid, owner, fs)}

\* ------------------------------------------------------------- client SDK
\* .maybeSingle(): the row when exactly one matches; no data when none matches,
\* and an error with no data when several do
MaybeSingle(rows) == IF Cardinality(rows) = 1 THEN rows ELSE {}

\* .or(and(requester_id.eq.a,addressee_id.eq.b),and(requester_id.eq.b,addressee_id.eq.a))
FriendshipPairFilter(a, b, f) ==
  \/ f.requester_id = a /\ f.addressee_id = b
  \/ f.requester_id = b /\ f.addressee_id = a

\* mutant: the filter names the reversed order only
ConversationPairFilter_ReversedOnly(a, b, c) ==
  c.participant1_id = b /\ c.participant2_id = a
\* .or(and(participant1_id.eq.a,participant2_id.eq.b),and(participant1_id.eq.b,participant2_id.eq.a))
ConversationPairFilter(a, b, c) ==
  \/ c.participant1_id = a /\ c.participant2_id = b
  \/ c.participant1_id = b /\ c.participant2_id = a

NoArg == [target |-> NULL, fid |-> NULL, nid |-> NULL, cid |-> NULL,
          accept |-> FALSE, send |-> FALSE]
NoEv == [kind |-> "none", user |-> NULL, target |-> NULL, id |-> NULL,
         id2 |-> NULL, ok |-> FALSE]
Ev(kind, user, target, id, id2, ok) ==
  [kind |-> kind, user |-> user, target |-> target, id |-> id, id2 |-> id2, ok |-> ok]

Bump(table) == [nextId EXCEPT ![table] = @ + 1]

\* UserSearch before any search
NoResults == [query |-> <<>>, rows |-> {}]
\* a settings form that is not open, and no file in a running upload handler
NoForm == [open |-> FALSE, loaded |-> FALSE, profile |-> <<>>, username |-> <<>>,
           captured |-> <<>>, file |-> [type |-> "", size |-> 0]]
\* a ChatWindow just mounted: no messages, loading, no channel; reply is the
\* answer of fetchMessages on its way, since and delivered are the channel's
\* position in the change feed
NoWindow == [messages |-> <<>>, reply |-> <<>>, loading |-> TRUE, channel |-> NULL,
             since |-> 0, delivered |-> {}]
\* the five relations of the schema
Tables == {"profiles", "friendships", "conversations", "messages", "notifications"}
\* no row of a table followed
NoRow == [created_at |-> NULL, updated_at |-> NULL]
\* the clock at its first reading, no row inserted
NoTimes == [now |-> 1, rows |-> [t \in Tables |-> NoRow]]
\* a ChatList that has not called fetchFriends: running holds the calls that are
\* between two awaits, started counts the calls made, lastSeen is the friendship
\* rows the store held when the latest call was made
NoFetches == [running |-> {}, started |-> 0, lastSeen |-> {}]
\* the digit that tells the sign-up usernames of the identities apart
DigitOf == [i \in 1..9 |-> <<"1", "2", "3", "4", "5", "6", "7", "8", "9">>[i]]

\* ------------------------------------------------------------- UserSearch
\* sendFriendRequest, up to its first await: the either-order existence check.
\* The profile comes from search_profiles_by_username, which excludes the caller.
SfrCheck(u, t) ==
  /\ pc[u] = "idle"
  /\ t # u
  /\ LET existing == MaybeSingle({f \in friendships :
                         FriendshipSelectUsing(u, f) /\ FriendshipPairFilter(u, t, f)})
     IN IF existing # {}
        THEN /\ ev' = Ev("sfr_exists", u, t, NULL, NULL, FALSE)
             /\ UNCHANGED <<pc, arg>>
        ELSE /\ pc' = [pc EXCEPT ![u] = "sfr_insert"]
             /\ arg' = [arg EXCEPT ![u] = [NoArg EXCEPT !.target = t]]
             /\ ev' = NoEv
  /\ UNCHANGED <<store, notifs, friends, selectedFriend, conversationId, gocLog>>
  /\ UNCHANGED account

\* sendFriendRequest: the insert of the pending row; a rejected insert throws
SfrInsert(u) ==
  /\ pc[u] = "sfr_insert"
  /\ LET row == [id |-> nextId.friendships, requester_id |-> u,
                 addressee_id |-> arg[u].target, status |-> "pending"]
     IN IF FriendshipInsertCheck(u, row) /\ FriendshipUnique(friendships, row)
        THEN /\ nextId.friendships <= MaxFriendshipId
             /\ friendships' = friendships \cup {row}
             /\ nextId' = Bump("friendships")
             /\ pc' = [pc EXCEPT ![u] = "sfr_notify"]
             /\ arg' = [arg EXCEPT ![u].fid = row.id]
             /\ ev' = NoEv
        ELSE /\ pc' = [pc EXCEPT ![u] = "idle"]
             /\ arg' = [arg EXCEPT ![u] = NoArg]
             /\ ev' = Ev("sfr_failed", u, arg[u].target, NULL, NULL, FALSE)
             /\ UNCHANGED <<friendships, nextId>>
  /\ UNCHANGED <<notifications, conversations, messages,
                 notifs, friends, selectedFriend, conversationId, gocLog>>
  /\ UNCHANGED account

\* sendFriendRequest: the notification insert, whose result is not looked at,
\* then the success toast
SfrNotify(u) ==
  /\ pc[u] = "sfr_notify"
  /\ LET n == [id |-> nextId.notifications, user_id |-> arg[u].target,
               type |-> "friend_request", from_user_id |-> u,
               friendship_id |-> arg[u].fid, is_read |-> FALSE]
         stored == /\ NotificationInsertCheck(u, n)
                   /\ \E f \in friendships : f.id = n.friendship_id
     IN /\ notifications' = IF stored THEN notifications \cup {n} ELSE notifications
        /\ nextId' = IF stored THEN Bump("notifications") ELSE nextId
  /\ ev' = Ev("sfr_success", u, arg[u].target, arg[u].fid, NULL, TRUE)
  /\ pc' = [pc EXCEPT ![u] = "idle"]
  /\ arg' = [arg EXCEPT ![u] = NoArg]
  /\ UNCHANGED <<friendships, conversations, messages,
                 notifs, friends, selectedFriend, conversationId, gocLog>>
  /\ UNCHANGED account

\* ------------------------------------------------------------- NotificationBell
\* fetchNotifications: on mount and on every INSERT event for the user
FetchNotifications(u) ==
  /\ notifs' = [notifs EXCEPT ![u] =
       {[id |-> n.id, from_user_id |-> n.from_user_id, friendship_id |-> n.friendship_id] :
          n \in {x \in notifications :
                   NotificationSelectUsing(u, x) /\ x.user_id = u /\ ~ x.is_read}}]
  /\ notifs' # notifs
  /\ ev' = NoEv
  /\ UNCHANGED <<store, pc, arg, friends, selectedFriend, conversationId, gocLog>>
  /\ UNCHANGED account

\* handleFriendRequest, up to its first await: the update or delete of the
\* friendship the notification names, filtered by id alone
RespondWrite(u, n, accept) ==
  /\ pc[u] = "idle"
  /\ n \in notifs[u]
  /\ LET hit == {f \in friendships : /\ f.id = n.friendship_id
                                    /\ FriendshipSelectUsing(u, f)
                                    /\ IF accept THEN FriendshipUpdateUsing(u, f)
                                                 ELSE FriendshipDeleteUsing(u, f)}
     IN IF accept
        THEN /\ friendships' = (friendships \ hit)
                                 \cup {[f EXCEPT !.status = "accepted"] : f \in hit}
             /\ UNCHANGED notifications
        ELSE /\ friendships' = friendships \ hit
             /\ notifications' = NotificationsAfterCascade(notifications, friendships')
  /\ pc' = [pc EXCEPT ![u] = "resp_mark"]
  /\ arg' = [arg EXCEPT ![u] = [NoArg EXCEPT !.nid = n.id, !.fid = n.friendship_id,
                                             !.accept = accept]]
  /\ ev' = Ev("resp_written", u, n.from_user_id, n.friendship_id, n.id, accept)
  /\ UNCHANGED <<conversations, messages, nextId,
                 notifs, friends, selectedFriend, conversationId, gocLog>>
  /\ UNCHANGED account

\* handleFriendRequest: mark the notification read, drop it from the list
RespondMark(u) ==
  /\ pc[u] = "resp_mark"
  /\ notifications' =
       {IF n.id = arg[u].nid /\ NotificationSelectUsing(u, n) /\ NotificationUpdateUsing(u, n)
          THEN [n EXCEPT !.is_read = TRUE] ELSE n : n \in notifications}
  /\ notifs' = [notifs EXCEPT ![u] = {x \in notifs[u] : x.id # arg[u].nid}]
  /\ ev' = Ev("resp_done", u, NULL, arg[u].fid, arg[u].nid, arg[u].accept)
  /\ pc' = [pc EXCEPT ![u] = "idle"]
  /\ arg' = [arg EXCEPT ![u] = NoArg]
  /\ UNCHANGED <<friendships, conversations, messages, nextId,
                 friends, selectedFriend, conversationId, gocLog>>
  /\ UNCHANGED account

\* ------------------------------------------------------------- ChatList, Home
\* the conversation lookup of fetchFriends and fetchOrCreateConversation
ConversationLookup(u, f) ==
  MaybeSingle({c \in conversations :
                 ConversationSelectUsing(u, c) /\ ConversationPairFilter(u, f, c)})

\* the id a lookup hands back, NULL for no data
LookupId(rows) == IF rows = {} THEN NULL ELSE (CHOOSE c \in rows : TRUE).id

\* fetchFriends: accepted friendships, the profiles the caller may read, and
\* each friend's conversation; runs on mount and on friendship and message events
FetchFriends(u) ==
  /\ LET accepted == {f \in friendships :
                        /\ FriendshipSelectUsing(u, f)
                        /\ f.status = "accepted"
                        /\ (f.requester_id = u \/ f.addressee_id = u)}
         friendUserIds == {IF f.requester_id = u THEN f.addressee_id ELSE f.requester_id :
                             f \in accepted}
         friendProfiles == ProfileSelect(u, friendships) \cap friendUserIds
     IN friends' = [friends EXCEPT ![u] =
          {[user_id |-> p, conversationId |-> LookupId(ConversationLookup(u, p))] :
             p \in friendProfiles}]
  /\ friends' # friends
  /\ ev' = NoEv
  /\ UNCHANGED <<store, pc, arg, notifs, selectedFriend, conversationId, gocLog>>
  /\ UNCHANGED account

\* handleSelectChat: ChatWindow is mounted on the first selection only, and only
\* then is conversationId initialised from friend.conversationId
SelectChat(u, fr) ==
  /\ pc[u] = "idle"
  /\ fr \in friends[u]
  /\ selectedFriend[u] # fr.user_id
  /\ selectedFriend' = [selectedFriend EXCEPT ![u] = fr.user_id]
  /\ conversationId' = [conversationId EXCEPT ![u] =
       IF selectedFriend[u] = NULL THEN fr.conversationId ELSE @]
  /\ ev' = NoEv
  /\ UNCHANGED <<store, pc, arg, notifs, friends, gocLog>>
  /\ UNCHANGED account

\* onBack: the window is unmounted and its state dropped
Back(u) ==
  /\ pc[u] = "idle"
  /\ selectedFriend[u] # NULL
  /\ selectedFriend' = [selectedFriend EXCEPT ![u] = NULL]
  /\ conversationId' = [conversationId EXCEPT ![u] = NULL]
  /\ ev' = NoEv
  /\ UNCHANGED <<store, pc, arg, notifs, friends, gocLog>>
  /\ UNCHANGED account

\* ------------------------------------------------------------- ChatWindow
\* the log of fetchOrCreateConversation(u, f): the values returned, the calls
\* completed and the inserts issued
Logged(u, f, value, attempted) ==
  [gocLog EXCEPT ![<<u, f>>] =
     [rets |-> @.rets \cup {value},
      calls |-> IF @.calls < GocLogCap THEN @.calls + 1 ELSE @.calls,
      attempts |-> IF attempted /\ @.attempts < GocLogCap
                     THEN @.attempts + 1 ELSE @.attempts]]

\* the message insert of sendMessage into conversation cid
MessageInsert(u, cid) ==
  LET row == [id |-> nextId.messages, conversation_id |-> cid, sender_id |-> u,
              inserted_into |-> cid]
  IN IF MessageInsertCheck(u, row, conversations)
        /\ \E c \in conversations : c.id = cid
     THEN /\ nextId.messages <= MaxMessageId
          /\ messages' = messages \cup {row}
          /\ nextId' = Bump("messages")
          /\ ev' = Ev("msg_sent", u, selectedFriend[u], row.id, cid, TRUE)
     ELSE /\ ev' = Ev("msg_failed", u, selectedFriend[u], NULL, cid, FALSE)
          /\ UNCHANGED <<messages, nextId>>

\* fetchOrCreateConversation, up to its first await: the either-order lookup.
\* send tells a call made by sendMessage from the one of the init effect.
GocLookup(u, send) ==
  /\ pc[u] = "idle"
  /\ selectedFriend[u] # NULL
  /\ LET f == selectedFriend[u]
         existing == ConversationLookup(u, f)
     IN IF existing # {}
        THEN /\ conversationId' = [conversationId EXCEPT ![u] = LookupId(existing)]
             /\ gocLog' = Logged(u, f, LookupId(existing), FALSE)
             /\ ev' = Ev("goc_return", u, f, LookupId(existing), NULL, TRUE)
             /\ pc' = [pc EXCEPT ![u] = IF send THEN "msg_insert" ELSE "idle"]
             /\ arg' = [arg EXCEPT ![u] =
                  IF send THEN [NoArg EXCEPT !.target = f, !.cid = LookupId(existing)]
                          ELSE NoArg]
        ELSE /\ pc' = [pc EXCEPT ![u] = "goc_insert"]
             /\ arg' = [arg EXCEPT ![u] = [NoArg EXCEPT !.target = f, !.send = send]]
             /\ ev' = NoEv
             /\ UNCHANGED <<conversationId, gocLog>>
  /\ UNCHANGED <<store, notifs, friends, selectedFriend>>
  /\ UNCHANGED account

\* fetchOrCreateConversation: the insert of (user, friend); an error returns null
GocInsert(u) ==
  /\ pc[u] = "goc_insert"
  /\ LET f == arg[u].target
         row == [id |-> nextId.conversations, participant1_id |-> u, participant2_id |-> f]
     IN IF ConversationInsertCheck(u, row) /\ ConversationUnique(conversations, row)
        THEN /\ nextId.conversations <= MaxConversationId
             /\ conversations' = conversations \cup {row}
             /\ nextId' = Bump("conversations")
             /\ conversationId' = [conversationId EXCEPT ![u] = row.id]
             /\ gocLog' = Logged(u, f, row.id, TRUE)
             /\ ev' = Ev("goc_return", u, f, row.id, NULL, TRUE)
             /\ pc' = [pc EXCEPT ![u] = IF arg[u].send THEN "msg_insert" ELSE "idle"]
             /\ arg' = [arg EXCEPT ![u] =
                  IF arg[u].send THEN [NoArg EXCEPT !.target = f, !.cid = row.id]
                                 ELSE NoArg]
        ELSE /\ gocLog' = Logged(u, f, NULL, TRUE)
             /\ ev' = Ev("goc_return", u, f, NULL, NULL, FALSE)
             /\ pc' = [pc EXCEPT ![u] = "idle"]
             /\ arg' = [arg EXCEPT ![u] = NoArg]
             /\ UNCHANGED <<conversations, nextId, conversationId>>
  /\ UNCHANGED <<friendships, notifications, messages, notifs, friends, selectedFriend>>
  /\ UNCHANGED account

\* the init effect of ChatWindow: fetchOrCreateConversation for the shown friend
InitConversation(u) == GocLookup(u, FALSE)

\* sendMessage: with a conversationId the insert is its first await, without
\* one it first runs fetchOrCreateConversation
SendMessage(u) ==
  /\ pc[u] = "idle"
  /\ selectedFriend[u] # NULL
  /\ IF conversationId[u] # NULL
     THEN /\ MessageInsert(u, conversationId[u])
          /\ UNCHANGED <<friendships, notifications, conversations, client, gocLog>>
          /\ UNCHANGED account
     ELSE GocLookup(u, TRUE)

\* sendMessage after fetchOrCreateConversation returned an id
SendInsert(u) ==
  /\ pc[u] = "msg_insert"
  /\ MessageInsert(u, arg[u].cid)
  /\ pc' = [pc EXCEPT ![u] = "idle"]
  /\ arg' = [arg EXCEPT ![u] = NoArg]
  /\ UNCHANGED <<friendships, notifications, conversations,
                 notifs, friends, selectedFriend, conversationId, gocLog>>
  /\ UNCHANGED account

\* handleDeleteFriend: delete the friendship rows of the pair, then onFriendRemoved
RemoveFriend(u) ==
  /\ pc[u] = "idle"
  /\ selectedFriend[u] # NULL
  /\ LET f == selectedFriend[u]
         hit == {r \in friendships : /\ FriendshipPairFilter(u, f, r)
                                    /\ FriendshipSelectUsing(u, r)
                                    /\ FriendshipDeleteUsing(u, r)}
     IN /\ friendships' = friendships \ hit
        /\ notifications' = NotificationsAfterCascade(notifications, friendships')
        /\ ev' = Ev("removed", u, f, NULL, NULL, TRUE)
  /\ selectedFriend' = [selectedFriend EXCEPT ![u] = NULL]
  /\ conversationId' = [conversationId EXCEPT ![u] = NULL]
  /\ UNCHANGED <<conversations, messages, nextId, pc, arg, notifs, friends, gocLog>>
  /\ UNCHANGED account

\* handleBlockUser: set the friendship rows of the pair to blocked, then onFriendRemoved
BlockUser(u) ==
  /\ pc[u] = "idle"
  /\ selectedFriend[u] # NULL
  /\ LET f == selectedFriend[u]
         hit == {r \in friendships : /\ FriendshipPairFilter(u, f, r)
                                    /\ FriendshipSelectUsing(u, r)
                                    /\ FriendshipUpdateUsing(u, r)}
     IN /\ friendships' = (friendships \ hit)
                            \cup {[r EXCEPT !.status = "blocked"] : r \in hit}
        /\ ev' = Ev("blocked", u, f, NULL, NULL, TRUE)
  /\ selectedFriend' = [selectedFriend EXCEPT ![u] = NULL]
  /\ conversationId' = [conversationId EXCEPT ![u] = NULL]
  /\ UNCHANGED <<notifications, conversations, messages, nextId,
                 pc, arg, notifs, friends, gocLog>>
  /\ UNCHANGED account

\* ------------------------------------------------------------- the application
\* every identity signed up and has its profile; no settings form is open, no
\* file chosen, nothing searched, the bucket empty
SignedUp ==
  /\ users = Identities
  /\ profiles = {[user_id |-> i, username |-> <<"u", "s", "r">> \o <<DigitOf[i]>>,
                  avatar_url |-> "", gender |-> ""] : i \in Identities}
  /\ objects = {}
  /\ form = [u \in Clients |-> NoForm]
  /\ results = [u \in Clients |-> NoResults]
  /\ window = [u \in Clients |-> NoWindow]
  /\ fetches = [u \in Clients |-> NoFetches]
  /\ times = NoTimes

Init ==
  /\ friendships = {}
  /\ notifications = {}
  /\ conversations = {}
  /\ messages = {}
  /\ nextId = [friendships |-> 1, notifications |-> 1, conversations |-> 1, messages |-> 1]
  /\ pc = [u \in Clients |-> "idle"]
  /\ arg = [u \in Clients |-> NoArg]
  /\ notifs = [u \in Clients |-> {}]
  /\ friends = [u \in Clients |-> {}]
  /\ selectedFriend = [u \in Clients |-> NULL]
  /\ conversationId = [u \in Clients |-> NULL]
  /\ gocLog = [p \in Clients \X Clients |-> [rets |-> {}, calls |-> 0, attempts |-> 0]]
  /\ ev = NoEv
  /\ SignedUp

\* the friendship flow: requests, answers, the chat list, unfriend and block
Next ==
  \E u \in Clients :
    \/ \E t \in Clients : SfrCheck(u, t)
    \/ SfrInsert(u)
    \/ SfrNotify(u)
    \/ FetchNotifications(u)
    \/ \E n \in notifs[u], accept \in BOOLEAN : RespondWrite(u, n, accept)
    \/ RespondMark(u)
    \/ FetchFriends(u)
    \/ \E fr \in friends[u] : SelectChat(u, fr)
    \/ Back(u)
    \/ RemoveFriend(u)
    \/ BlockUser(u)

Spec == Init /\ [][Next]_vars

\* ------------------------------------------------------------- the chat flow
\* two friends: client 1's request to client 2 was sent, fetched and accepted
InitChat ==
  /\ friendships = {[id |-> 1, requester_id |-> 1, addressee_id |-> 2, status |-> "accepted"]}
  /\ notifications = {[id |-> 1, user_id |-> 2, type |-> "friend_request",
                       from_user_id |-> 1, friendship_id |-> 1, is_read |-> TRUE]}
  /\ conversations = {}
  /\ messages = {}
  /\ nextId = [friendships |-> 2, notifications |-> 2, conversations |-> 1, messages |-> 1]
  /\ pc = [u \in Clients |-> "idle"]
  /\ arg = [u \in Clients |-> NoArg]
  /\ notifs = [u \in Clients |-> {}]
  /\ friends = [u \in Clients |-> {}]
  /\ selectedFriend = [u \in Clients |-> NULL]
  /\ conversationId = [u \in Clients |-> NULL]
  /\ gocLog = [p \in Clients \X Clients |-> [rets |-> {}, calls |-> 0, attempts |-> 0]]
  /\ ev = NoEv
  /\ SignedUp

NextChat ==
  \E u \in Clients :
    \/ FetchFriends(u)
    \/ \E fr \in friends[u] : SelectChat(u, fr)
    \/ Back(u)
    \/ InitConversation(u)
    \/ GocInsert(u)
    \/ SendMessage(u)
    \/ SendInsert(u)
    \/ RemoveFriend(u)
    \/ BlockUser(u)

SpecChat == InitChat /\ [][NextChat]_vars

\* ------------------------------------------------------------- the store alone
\* Requests any authenticated identity can send with the public API key; the
\* policies and constraints of the migrations decide every one of them.

\* select * from messages, as uid
MessagesSelect(uid) == {m \in messages : MessageSelectUsing(uid, m, conversations)}

\* insert into friendships (requester_id, addressee_id, status)
FriendshipsInsert(uid, req, addr, status) ==
  /\ LET row == [id |-> nextId.friendships, requester_id |-> req,
                 addressee_id |-> addr, status |-> status]
     IN IF /\ FriendshipInsertCheck(uid, row) /\ FriendshipUnique(friendships, row)
           /\ ReferencesUser(users, req) /\ ReferencesUser(users, addr)
        THEN /\ nextId.friendships <= MaxStoreFriendshipId
             /\ friendships' = friendships \cup {row}
             /\ nextId' = Bump("friendships")
             /\ ev' = Ev("friendships_insert", uid, req, row.id, NULL, TRUE)
        ELSE /\ ev' = Ev("friendships_insert", uid, req, NULL, NULL, FALSE)
             /\ UNCHANGED <<friendships, nextId>>
  /\ UNCHANGED <<notifications, conversations, messages, client, gocLog>>
  /\ UNCHANGED account

\* update friendships set status = .. where id = ..
FriendshipsUpdate(uid, id, status) ==
  /\ LET hit == {f \in friendships : /\ f.id = id
                                    /\ FriendshipSelectUsing(uid, f)
                                    /\ FriendshipUpdateUsing(uid, f)}
     IN /\ friendships' = (friendships \ hit) \cup {[f EXCEPT !.status = status] : f \in hit}
        /\ ev' = Ev("friendships_update", uid, NULL, id, NULL, hit # {})
  /\ UNCHANGED <<notifications, conversations, messages, nextId, client, gocLog>>
  /\ UNCHANGED account

\* delete from friendships where id = ..
FriendshipsDelete(uid, id) ==
  /\ LET hit == {f \in friendships : /\ f.id = id
                                    /\ FriendshipSelectUsing(uid, f)
                                    /\ FriendshipDeleteUsing(uid, f)}
     IN /\ friendships' = friendships \ hit
        /\ notifications' = NotificationsAfterCascade(notifications, friendships')
        /\ ev' = Ev("friendships_delete", uid, NULL, id, NULL, hit # {})
  /\ UNCHANGED <<conversations, messages, nextId, client, gocLog>>
  /\ UNCHANGED account

\* insert into conversations (participant1_id, participant2_id)
ConversationsInsert(uid, p1, p2) ==
  /\ LET row == [id |-> nextId.conversations, participant1_id |-> p1, participant2_id |-> p2]
     IN IF /\ ConversationInsertCheck(uid, row) /\ ConversationUnique(conversations, row)
           /\ ReferencesUser(users, p1) /\ ReferencesUser(users, p2)
        THEN /\ nextId.conversations <= MaxConversationId
             /\ conversations' = conversations \cup {row}
             /\ nextId' = Bump("conversations")
             /\ ev' = Ev("conversations_insert", uid, NULL, row.id, NULL, TRUE)
        ELSE /\ ev' = Ev("conversations_insert", uid, NULL, NULL, NULL, FALSE)
             /\ UNCHANGED <<conversations, nextId>>
  /\ UNCHANGED <<friendships, notifications, messages, client, gocLog>>
  /\ UNCHANGED account

\* delete from conversations where id = ..
ConversationsDelete(uid, id) ==
  /\ LET hit == {c \in conversations : /\ c.id = id
                                      /\ ConversationSelectUsing(uid, c)
                                      /\ ConversationDeleteUsing(uid, c)}
     IN /\ conversations' = conversations \ hit
        /\ messages' = MessagesAfterCascade(messages, conversations')
        /\ ev' = Ev("conversations_delete", uid, NULL, id, NULL, hit # {})
  /\ UNCHANGED <<friendships, notifications, nextId, client, gocLog>>
  /\ UNCHANGED account

\* update conversations set participant1_id = .., participant2_id = .. where id = ..
ConversationsUpdate(uid, id, p1, p2) ==
  /\ LET hit == {c \in conversations : /\ c.id = id
                                      /\ ConversationSelectUsing(uid, c)
                                      /\ ConversationUpdateUsing(uid, c)}
         new(c) == [c EXCEPT !.participant1_id = p1, !.participant2_id = p2]
     IN /\ conversations' = (conversations \ hit) \cup {new(c) : c \in hit}
        /\ ev' = Ev("conversations_update", uid, NULL, id, NULL, hit # {})
  /\ UNCHANGED <<friendships, notifications, messages, nextId, client, gocLog>>
  /\ UNCHANGED account

\* insert into messages (conversation_id, sender_id)
MessagesInsert(uid, cid, sender) ==
  /\ LET row == [id |-> nextId.messages, conversation_id |-> cid, sender_id |-> sender,
                 inserted_into |-> cid]
     IN IF /\ MessageInsertCheck(uid, row, conversations)
           /\ \E c \in conversations : c.id = cid
           /\ ReferencesUser(users, sender)
        THEN /\ nextId.messages <= MaxMessageId
             /\ messages' = messages \cup {row}
             /\ nextId' = Bump("messages")
             /\ ev' = Ev("messages_insert", uid, sender, row.id, cid, TRUE)
        ELSE /\ ev' = Ev("messages_insert", uid, sender, NULL, cid, FALSE)
             /\ UNCHANGED <<messages, nextId>>
  /\ UNCHANGED <<friendships, notifications, conversations, client, gocLog>>
  /\ UNCHANGED account

\* update messages set conversation_id = .., sender_id = .. where id = ..
\* The filter reads the row, so the select policy applies to the old and to the
\* new row; the update policy's USING is also the check of the new row.
MessagesUpdate(uid, id, cid, sender) ==
  /\ LET hit == {m \in messages : /\ m.id = id
                                 /\ MessageSelectUsing(uid, m, conversations)
                                 /\ MessageUpdateUsing(uid, m)}
         new(m) == [m EXCEPT !.conversation_id = cid, !.sender_id = sender]
         passes == \A m \in hit : /\ MessageUpdateUsing(uid, new(m))
                                  /\ MessageSelectUsing(uid, new(m), conversations)
                                  /\ \E c \in conversations : c.id = cid
                                  /\ ReferencesUser(users, sender)
     IN /\ messages' = IF passes THEN (messages \ hit) \cup {new(m) : m \in hit}
                                 ELSE messages
        /\ ev' = Ev("messages_update", uid, sender, id, cid, passes /\ hit # {})
  /\ UNCHANGED <<friendships, notifications, conversations, nextId, client, gocLog>>
  /\ UNCHANGED account

\* conversations and messages
NextStore ==
  \E uid \in Identities :
    \/ \E p1, p2 \in Identities : ConversationsInsert(uid, p1, p2)
    \/ \E id \in 1..MaxConversationId : ConversationsDelete(uid, id)
    \/ \E id \in 1..MaxConversationId, p1, p2 \in Identities :
         ConversationsUpdate(uid, id, p1, p2)
    \/ \E cid \in 1..MaxConversationId, sender \in Identities :
         MessagesInsert(uid, cid, sender)
    \/ \E id \in 1..MaxMessageId, cid \in 1..MaxConversationId, sender \in Identities :
         MessagesUpdate(uid, id, cid, sender)

SpecStore == Init /\ [][NextStore]_vars

\* friendships, which decide who reads which profile
NextFriendStore ==
  \E uid \in Identities :
    \/ \E req, addr \in Identities, status \in FriendshipStatus :
         FriendshipsInsert(uid, req, addr, status)
    \/ \E id \in 1..MaxStoreFriendshipId, status \in FriendshipStatus :
         FriendshipsUpdate(uid, id, status)
    \/ \E id \in 1..MaxStoreFriendshipId : FriendshipsDelete(uid, id)

SpecFriendStore == Init /\ [][NextFriendStore]_vars

\* ------------------------------------------------------------- claims
\* the friendship rows of the unordered pair {a, b}
PairRows(a, b) == {f \in friendships : FriendshipPairFilter(a, b, f)}

\* C1: whenever sendFriendRequest(A,B) reports success, exactly one friendship
\* row exists for the unordered pair {A,B}, it is pending with requester A, and
\* a friend_request notification to B from A names it.
C1_SuccessLeavesOnePendingRow ==
  ev.kind = "sfr_success" =>
    /\ Cardinality(PairRows(ev.user, ev.target)) = 1
    /\ \A f \in PairRows(ev.user, ev.target) :
         /\ f.status = "pending"
         /\ f.requester_id = ev.user
         /\ \E n \in notifications : /\ n.type = "friend_request"
                                     /\ n.user_id = ev.target
                                     /\ n.from_user_id = ev.user
                                     /\ n.friendship_id = f.id

\* C2: no two friendship rows of the same unordered pair are accepted at once.
C2_NoTwoAcceptedRows ==
  \A f, g \in friendships :
    (f.status = "accepted" /\ g.status = "accepted" /\ FriendshipPairFilter(f.requester_id, f.addressee_id, g))
      => f = g

\* C3: respondToFriendRequest's write leaves the named row accepted on an
\* accept and leaves no such row on a decline, and when the handler completes
\* no unread notification for the request remains for the recipient.
C3_ResponseTakesEffect ==
  /\ ev.kind = "resp_written" =>
       /\ ev.ok => \E f \in friendships : f.id = ev.id /\ f.status = "accepted"
       /\ ~ ev.ok => ~ \E f \in friendships : f.id = ev.id
  /\ ev.kind = "resp_done" =>
       ~ \E n \in notifications :
           n.user_id = ev.user /\ n.friendship_id = ev.id /\ ~ n.is_read

\* C4: blocked is terminal: a blocked friendship row stays, and stays blocked,
\* in every step of the application.
C4_BlockedIsTerminal ==
  [][\A f \in friendships :
       f.status = "blocked" => \E g \in friendships' : g.id = f.id /\ g.status = "blocked"]_vars

\* C5: after removeFriendship(A,B) completes, no conversation of the pair {A,B}
\* and no message of such a conversation exists.
C5_UnfriendDeletesConversation ==
  ev.kind = "removed" =>
    /\ ~ \E c \in conversations : ConversationPairFilter(ev.user, ev.target, c)
    /\ ~ \E m \in messages : \E c \in conversations :
           c.id = m.conversation_id /\ ConversationPairFilter(ev.user, ev.target, c)

C7_MessageInsertGate ==
  [][ev'.kind = "messages_insert" =>
       LET allowed == /\ ev'.target = ev'.user
                      /\ \E c \in conversations :
                           /\ c.id = ev'.id2
                           /\ (c.participant1_id = ev'.user \/ c.participant2_id = ev'.user)
       IN /\ (ev'.ok \/ messages' # messages) => allowed
          /\ ~ allowed => (~ ev'.ok /\ messages' = messages)
          /\ \A m \in messages' \ messages :
               m.sender_id = ev'.user /\ m.conversation_id = ev'.id2]_vars

\* C7 witness: a participant's insert under another identity's name was rejected
\* after one of their own was stored
C7_Witness ==
  /\ ev.kind = "messages_insert" /\ ~ ev.ok /\ ev.target # ev.user
  /\ \E c \in conversations :
       c.id = ev.id2 /\ (c.participant1_id = ev.user \/ c.participant2_id = ev.user)
  /\ \E m \in messages : m.sender_id = ev.user /\ m.conversation_id = ev.id2

\* C8: every message's sender is a participant of the conversation the message
\* references, and a message never leaves the conversation it was inserted into.
C8_MessageStaysInConversation ==
  \A m \in messages :
    /\ \E c \in conversations :
         /\ c.id = m.conversation_id
         /\ (c.participant1_id = m.sender_id \/ c.participant2_id = m.sender_id)
    /\ m.conversation_id = m.inserted_into

\* C9: a select on messages never returns a message of a conversation the
\* caller is not a participant of.
C9_MessageSelectConfined ==
  \A uid \in Identities : \A m \in MessagesSelect(uid) :
    \E c \in conversations :
      c.id = m.conversation_id /\ (c.participant1_id = uid \/ c.participant2_id = uid)

\* C9 witness: a message that one identity reads and another, who has a
\* conversation of their own, does not
C9_Witness ==
  \E m \in messages : \E x, y \in Identities :
    /\ m \in MessagesSelect(x)
    /\ m \notin MessagesSelect(y)
    /\ \E c \in conversations : c.participant1_id = y \/ c.participant2_id = y

\* C10: while the pair's conversation has only been created in the order (A,B),
\* every completed fetchOrCreateConversation(A,B) returned the same id, that of
\* the (A,B) row, and only one of the calls issued an insert.
C10_SameOrderSameId ==
  \A a, b \in Clients :
    (~ \E c \in conversations : c.participant1_id = b /\ c.participant2_id = a) =>
      LET log == gocLog[<<a, b>>] IN
      /\ NULL \notin log.rets
      /\ Cardinality(log.rets) <= 1
      /\ log.attempts <= 1
      /\ log.rets # {} =>
           /\ log.attempts = 1
           /\ \E c \in conversations :
                c.id \in log.rets /\ c.participant1_id = a /\ c.participant2_id = b

\* C10 witness: two calls in the order (A,B) have completed and no (B,A) row exists
C10_Witness ==
  \E a, b \in Clients :
    /\ a # b
    /\ ~ \E c \in conversations : c.participant1_id = b /\ c.participant2_id = a
    /\ gocLog[<<a, b>>].calls >= 2
    /\ gocLog[<<a, b>>].rets # {}

\* C11: nothing stops the insert of fetchOrCreateConversation when only the
\* reversed row exists: a call that found no row in its lookup inserts its own
\* (user, friend) row whenever no row of that same order is stored, so the
\* interleaving lookup, lookup, insert, insert leaves both (A,B) and (B,A).
C11_ReversedInsertNotPrevented ==
  [][\A u \in Clients :
       (/\ pc[u] = "goc_insert"
        /\ pc'[u] # "goc_insert"
        /\ ~ \E c \in conversations :
               c.participant1_id = u /\ c.participant2_id = arg[u].target)
         => /\ \E c \in conversations' \ conversations :
                 c.participant1_id = u /\ c.participant2_id = arg[u].target
            /\ conversations \subseteq conversations']_vars

\* C11 witness: both rows of one pair are stored, each inserted by its own
\* client's single call
C11_Witness ==
  \E a, b \in Clients :
    /\ a # b
    /\ \E c, d \in conversations :
         /\ c.participant1_id = a /\ c.participant2_id = b
         /\ d.participant1_id = b /\ d.participant2_id = a
         /\ gocLog[<<a, b>>].rets = {c.id}
         /\ gocLog[<<b, a>>].rets = {d.id}
    /\ gocLog[<<a, b>>].attempts = 1
    /\ gocLog[<<b, a>>].attempts = 1
    /\ gocLog[<<a, b>>].calls = 1
    /\ gocLog[<<b, a>>].calls = 1

\* ------------------------------------------------------------- two sessions
\* An identity signed in twice (two tabs, two devices) runs the same handler in
\* both.  The second session is present by the inserts it issues: the pending
\* friendship row of sendFriendRequest and the conversation row of
\* fetchOrCreateConversation, each with the identity itself in first place.

\* the insert of sendFriendRequest as the caller's second session issues it
SecondSessionRequest(u, t) ==
  /\ LET row == [id |-> nextId.friendships, requester_id |-> u,
                 addressee_id |-> t, status |-> "pending"]
     IN IF FriendshipInsertCheck(u, row) /\ FriendshipUnique(friendships, row)
        THEN /\ nextId.friendships <= MaxFriendshipId
             /\ friendships' = friendships \cup {row}
             /\ nextId' = Bump("friendships")
             /\ ev' = Ev("friendships_insert", u, t, row.id, NULL, TRUE)
        ELSE /\ ev' = Ev("friendships_insert", u, t, NULL, NULL, FALSE)
             /\ UNCHANGED <<friendships, nextId>>
  /\ UNCHANGED <<notifications, conversations, messages, client, gocLog>>
  /\ UNCHANGED account

\* the two friends of InitChat, each in two sessions, and the identities
\* without a client as the people they send requests to
NextSessions ==
  \E u \in Clients :
    \/ \E t \in Identities \ Clients : SfrCheck(u, t)
    \/ SfrInsert(u)
    \/ SfrNotify(u)
    \/ \E t \in Identities \ Clients : SecondSessionRequest(u, t)
    \/ FetchFriends(u)
    \/ \E fr \in friends[u] : SelectChat(u, fr)
    \/ InitConversation(u)
    \/ GocInsert(u)
    \/ \E t \in Clients \ {u} : ConversationsInsert(u, u, t)

SpecSessions == InitChat /\ [][NextSessions]_vars

\* no two rows of a table share their ordered pair
OrderedPairsUnique(fs, cs) ==
  /\ \A f, g \in fs :
       (f.requester_id = g.requester_id /\ f.addressee_id = g.addressee_id) => f = g
  /\ \A c, d \in cs :
       (c.participant1_id = d.participant1_id /\ c.participant2_id = d.participant2_id)
         => c = d

\* C12: no two friendship rows and no two conversation rows share their ordered
\* pair; an insert of sendFriendRequest or fetchOrCreateConversation that comes
\* second on an ordered pair stores nothing, leaves the first row as it is and
\* reports a failure to its caller.
C12_OrderedPairLoserFails ==
  [][/\ OrderedPairsUnique(friendships, conversations)
     /\ OrderedPairsUnique(friendships', conversations')
     /\ \A u \in Clients :
          /\ (/\ pc[u] = "sfr_insert"
              /\ pc'[u] # "sfr_insert"
              /\ \E f \in friendships :
                   f.requester_id = u /\ f.addressee_id = arg[u].target)
               => /\ friendships' = friendships
                  /\ notifications' = notifications
                  /\ ev'.kind = "sfr_failed" /\ ev'.user = u /\ ~ ev'.ok
          /\ (/\ pc[u] = "goc_insert"
              /\ pc'[u] # "goc_insert"
              /\ \E c \in conversations :
                   c.participant1_id = u /\ c.participant2_id = arg[u].target)
               => /\ conversations' = conversations
                  /\ ev'.kind = "goc_return" /\ ev'.user = u /\ ~ ev'.ok
                  /\ ev'.id = NULL]_vars

\* C12 witness: sendFriendRequest has just failed on the row its caller's other
\* session stored first, and before that fetchOrCreateConversation returned
\* null for the same reason
C12_Witness ==
  /\ ev.kind = "sfr_failed"
  /\ Cardinality({f \in friendships :
                    f.requester_id = ev.user /\ f.addressee_id = ev.target}) = 1
  /\ \E a, b \in Clients :
       /\ gocLog[<<a, b>>].attempts = 1
       /\ gocLog[<<a, b>>].rets = {NULL}
       /\ Cardinality({c \in conversations :
                         c.participant1_id = a /\ c.participant2_id = b}) = 1

\* ------------------------------------------------------------- text
\* Text is a sequence of characters.  The characters that tell the cases of
\* search and of username normalisation apart: a lower-case letter, its
\* upper-case form, a second letter, the two LIKE wildcards, and a character
\* outside [a-z0-9_].
Chars == {"a", "A", "b", "_", "%", "!"}

\* String.prototype.toLowerCase, and the case folding of ILIKE, on one character
LowerChar(c) == IF c = "A" THEN "a" ELSE c

\* toLowerCase()
ToLowerCase(t) == [i \in 1..Len(t) |-> LowerChar(t[i])]

\* the texts of at most n characters over a set of characters
Texts(cs, n) == UNION {[1..k -> cs] : k \in 0..n}

\* t contains s as a contiguous part
Contains(t, s) ==
  \E i \in 0..(Len(t) - Len(s)) : SubSeq(t, i + 1, i + Len(s)) = s

\* text LIKE pattern: % stands for any run of characters, _ for any one
\* character, every other character for itself
RECURSIVE Like(_, _)
Like(t, p) ==
  IF p = <<>> THEN t = <<>>
  ELSE IF Head(p) = "%" THEN \/ Like(t, Tail(p))
                             \/ t # <<>> /\ Like(Tail(t), p)
  ELSE IF t = <<>> THEN FALSE
  ELSE IF Head(p) = "_" THEN Like(Tail(t), Tail(p))
  ELSE Head(t) = Head(p) /\ Like(Tail(t), Tail(p))

\* text ILIKE pattern: LIKE with the case folded on both sides
ILike(t, p) == Like(ToLowerCase(t), ToLowerCase(p))

\* ------------------------------------------------------------- UserSearch: search
\* LIMIT 10
SearchLimit == 10

\* LIMIT n with no ORDER BY: any n of the rows, all of them when there are fewer
Limit(rows, n) ==
  {r \in SUBSET rows :
     Cardinality(r) = IF Cardinality(rows) < n THEN Cardinality(rows) ELSE n}

\* search_profiles_by_username: SECURITY DEFINER, so no row-level security;
\* the rows RETURN QUERY can hand back, in the projection of RETURNS TABLE
\* (id and bio are not modelled)
search_profiles_by_username(search_query, exclude_user_id) ==
  Limit({[user_id |-> p.user_id, username |-> p.username, avatar_url |-> p.avatar_url] :
           p \in {q \in profiles :
                    /\ ILike(q.username, <<"%">> \o search_query \o <<"%">>)
                    /\ q.user_id # exclude_user_id}},
        SearchLimit)

\* String.prototype.trim() leaves nothing: no character of the model is white space
TrimIsEmpty(t) == t = <<>>

\* searchUsers: the rpc with the caller's id as exclude_user_id, then setResults
SearchUsers(u, searchQuery) ==
  /\ pc[u] = "idle"
  /\ ~ TrimIsEmpty(searchQuery)
  /\ \E data \in search_profiles_by_username(searchQuery, u) :
       results' = [results EXCEPT ![u] = [query |-> searchQuery, rows |-> data]]
  /\ ev' = Ev("searched", u, NULL, NULL, NULL, TRUE)
  /\ UNCHANGED <<store, client, gocLog, users, profiles, objects, form, window, fetches, times>>

\* the characters of the usernames and of the queries of SpecSearch
SearchNameChars == {"a", "_"}
SearchQueryChars == {"A", "_", "%"}
\* the longest username and query of SpecSearch
MaxSearchLen == 2

\* the profiles table with the usernames of the clients' profiles drawn freely
InitSearch ==
  /\ friendships = {}
  /\ notifications = {}
  /\ conversations = {}
  /\ messages = {}
  /\ nextId = [friendships |-> 1, notifications |-> 1, conversations |-> 1, messages |-> 1]
  /\ pc = [u \in Clients |-> "idle"]
  /\ arg = [u \in Clients |-> NoArg]
  /\ notifs = [u \in Clients |-> {}]
  /\ friends = [u \in Clients |-> {}]
  /\ selectedFriend = [u \in Clients |-> NULL]
  /\ conversationId = [u \in Clients |-> NULL]
  /\ gocLog = [p \in Clients \X Clients |-> [rets |-> {}, calls |-> 0, attempts |-> 0]]
  /\ ev = NoEv
  /\ users = Identities
  /\ \E name \in [Identities -> Texts(SearchNameChars, MaxSearchLen) \ {<<>>}] :
       /\ \A i, j \in Identities : name[i] = name[j] => i = j
       /\ \A i \in Identities \ Clients : name[i] = <<"a", "a">>
       /\ profiles = {[user_id |-> i, username |-> name[i], avatar_url |-> "",
                       gender |-> ""] : i \in Identities}
  /\ objects = {}
  /\ form = [u \in Clients |-> NoForm]
  /\ results = [u \in Clients |-> NoResults]
  /\ window = [u \in Clients |-> NoWindow]
  /\ fetches = [u \in Clients |-> NoFetches]
  /\ times = NoTimes

NextSearch ==
  \E u \in Clients :
    \E q \in Texts(SearchQueryChars, MaxSearchLen) : SearchUsers(u, q)

SpecSearch == InitSearch /\ [][NextSearch]_vars

\* C13: searchProfiles(s, X) returns at most 10 rows, none of them X's own, all
\* of them with a username that contains s as a literal substring up to case,
\* and each with the fields of the fixed projection only.
C13_SearchLiteralSubstring ==
  \A u \in Clients :
    /\ Cardinality(results[u].rows) <= SearchLimit
    /\ \A r \in results[u].rows :
         /\ r.user_id # u
         /\ Contains(ToLowerCase(r.username), ToLowerCase(results[u].query))
         /\ DOMAIN r = {"user_id", "username", "avatar_url"}

\* ------------------------------------------------------------- profiles: the table
\* mutant: the check accepts every caller
ProfileInsertCheck_Anyone(uid, p) == TRUE
\* "Users can insert their own profile"
ProfileInsertCheck(uid, p) == uid = p.user_id
\* "Users can update their own profile" (USING; with no WITH CHECK it is also
\* the check of the new row)
ProfileUpdateUsing(uid, p) == uid = p.user_id
\* no policy FOR DELETE exists on profiles: with row-level security enabled
\* no row passes
ProfileDeleteUsing(uid, p) == FALSE

\* mutant: the column username carries no UNIQUE
ProfileUsernameUnique_Absent(rows, p) == TRUE
\* username TEXT NOT NULL UNIQUE
ProfileUsernameUnique(rows, p) == ~ \E q \in rows : q.username = p.username
\* user_id ... NOT NULL UNIQUE
ProfileUserUnique(rows, p) == ~ \E q \in rows : q.user_id = p.user_id
\* user_id REFERENCES auth.users(id)
ProfileUserExists(us, p) == p.user_id \in us

\* the profile rows a select by uid returns
ProfileRowsVisible(uid) ==
  {p \in profiles : ProfileSelectUsing(uid, p.user_id, friendships)}

\* update profiles set username = name where user_id = owner, as uid: the rows
\* it may touch, and whether the new rows pass the policy and the constraints
ProfileUpdateHit(uid, owner) ==
  {p \in ProfileRowsVisible(uid) : p.user_id = owner /\ ProfileUpdateUsing(uid, p)}
ProfileUpdateAccepted(uid, hit, new) ==
  \A p \in hit :
    /\ ProfileUpdateUsing(uid, new[p])
    /\ ProfileUserExists(users, new[p])
    /\ new[p].username = p.username \/ ProfileUsernameUnique(profiles \ {p}, new[p])
    /\ new[p].user_id = p.user_id \/ ProfileUserUnique(profiles \ {p}, new[p])

\* ------------------------------------------------------------- ProfileSettings
\* the characters /[^a-z0-9_]/ keeps
NameChars ==
  {"a", "b", "r", "s", "u", "_", "0", "1", "2", "3", "4", "5", "6", "7", "8", "9"}

\* value.toLowerCase().replace(/[^a-z0-9_]/g, '')
Normalize(t) ==
  LET IsNameChar(c) == c \in NameChars IN SelectSeq(ToLowerCase(t), IsNameChar)

\* username.length < 3
MinUsernameLength == 3

\* fetchProfile on mount: the caller's own row into profile and username
OpenSettings(u) ==
  /\ pc[u] = "idle"
  /\ ~ form[u].open
  /\ LET data == {p \in ProfileRowsVisible(u) : p.user_id = u}
     IN form' = [form EXCEPT ![u] =
          IF Cardinality(data) = 1
            THEN [@ EXCEPT !.open = TRUE, !.loaded = TRUE,
                           !.profile = (CHOOSE p \in data : TRUE).username,
                           !.username = (CHOOSE p \in data : TRUE).username]
            ELSE [@ EXCEPT !.open = TRUE, !.loaded = FALSE,
                           !.profile = <<>>, !.username = <<>>]]
  /\ ev' = NoEv
  /\ UNCHANGED <<store, client, gocLog, users, profiles, objects, results, window, fetches, times>>

\* the username Input's onChange: the typed value, normalised, into username
TypeUsername(u, value) ==
  /\ form[u].open
  /\ form[u].username # Normalize(value)
  /\ form' = [form EXCEPT ![u].username = Normalize(value)]
  /\ ev' = NoEv
  /\ UNCHANGED <<store, client, gocLog, users, profiles, objects, results, window, fetches, times>>

\* onClose: the dialog is closed and the component unmounted
CloseSettings(u) ==
  /\ pc[u] = "idle"
  /\ form[u].open
  /\ form' = [form EXCEPT ![u] = [NoForm EXCEPT !.captured = form[u].captured]]
  /\ ev' = NoEv
  /\ UNCHANGED <<store, client, gocLog, users, profiles, objects, results, window, fetches, times>>

\* handleSave, up to its first await: the guards on the username state, then
\* the taken-check when the username differs from the loaded one.  The call
\* works on the username it was started with (captured).
SaveCheck(u) ==
  /\ pc[u] = "idle"
  /\ form[u].open
  /\ ~ TrimIsEmpty(form[u].username)
  /\ LET username == form[u].username
         existingUser == MaybeSingle({p \in ProfileRowsVisible(u) :
                                        p.username = username /\ p.user_id # u})
     IN /\ form' = [form EXCEPT ![u].captured = username]
        /\ IF Len(username) < MinUsernameLength
           THEN /\ ev' = Ev("save_rejected", u, NULL, NULL, NULL, FALSE)
                /\ UNCHANGED pc
           ELSE IF (~ form[u].loaded \/ username # form[u].profile) /\ existingUser # {}
           THEN /\ ev' = Ev("save_taken", u, NULL, NULL, NULL, FALSE)
                /\ UNCHANGED pc
           ELSE /\ ev' = NoEv
                /\ pc' = [pc EXCEPT ![u] = "save_update"]
  /\ UNCHANGED <<store, arg, notifs, friends, selectedFriend, conversationId, gocLog,
                 users, profiles, objects, results, window, fetches, times>>

\* handleSave: the update of the caller's row with the normalised username; an
\* error is a toast, success a toast and onClose
SaveUpdate(u) ==
  /\ pc[u] = "save_update"
  /\ LET hit == ProfileUpdateHit(u, u)
         new == [p \in hit |-> [p EXCEPT !.username = Normalize(form[u].captured)]]
     IN IF ProfileUpdateAccepted(u, hit, new)
        THEN /\ profiles' = (profiles \ hit) \cup {new[p] : p \in hit}
             /\ ev' = Ev("save_ok", u, NULL, NULL, NULL, TRUE)
             /\ form' = [form EXCEPT ![u] = [NoForm EXCEPT !.captured = form[u].captured]]
        ELSE /\ ev' = Ev("save_failed", u, NULL, NULL, NULL, FALSE)
             /\ UNCHANGED <<profiles, form>>
  /\ pc' = [pc EXCEPT ![u] = "idle"]
  /\ UNCHANGED <<store, arg, notifs, friends, selectedFriend, conversationId, gocLog,
                 users, objects, results, window, fetches, times>>

\* update profiles set username = .. where user_id = .., sent to the store
\* directly; the policies and constraints decide
ProfilesUpdate(uid, owner, newOwner, name) ==
  /\ LET hit == ProfileUpdateHit(uid, owner)
         new == [p \in hit |-> [p EXCEPT !.user_id = newOwner, !.username = name]]
         accepted == ProfileUpdateAccepted(uid, hit, new)
     IN /\ profiles' = IF accepted THEN (profiles \ hit) \cup {new[p] : p \in hit}
                                   ELSE profiles
        /\ ev' = Ev("profiles_update", uid, owner, newOwner, NULL, accepted /\ hit # {})
  /\ UNCHANGED <<store, client, gocLog, users, objects, form, results, window, fetches, times>>

\* what the clients type into the username field
TypedUsernames == {<<"A", "_", "b">>, <<"a", "b", "!">>, <<"b", "a", "b">>}
\* what an owner writes to the column without the form
DirectUsernames == {<<"A", "b", "!">>}

\* clients 1 and 2 are friends and read each other's profile; identity 3 is a
\* stranger whose profile neither of them can read
InitSettings ==
  /\ friendships = {[id |-> 1, requester_id |-> 1, addressee_id |-> 2, status |-> "accepted"]}
  /\ notifications = {[id |-> 1, user_id |-> 2, type |-> "friend_request",
                       from_user_id |-> 1, friendship_id |-> 1, is_read |-> TRUE]}
  /\ conversations = {}
  /\ messages = {}
  /\ nextId = [friendships |-> 2, notifications |-> 2, conversations |-> 1, messages |-> 1]
  /\ pc = [u \in Clients |-> "idle"]
  /\ arg = [u \in Clients |-> NoArg]
  /\ notifs = [u \in Clients |-> {}]
  /\ friends = [u \in Clients |-> {}]
  /\ selectedFriend = [u \in Clients |-> NULL]
  /\ conversationId = [u \in Clients |-> NULL]
  /\ gocLog = [p \in Clients \X Clients |-> [rets |-> {}, calls |-> 0, attempts |-> 0]]
  /\ ev = NoEv
  /\ users = Identities
  /\ profiles = {[user_id |-> i,
                  username |-> IF i \in Clients THEN <<"u", "s", "r">> \o <<DigitOf[i]>>
                                                ELSE <<"b", "a", "b">>,
                  avatar_url |-> "", gender |-> ""] : i \in Identities}
  /\ objects = {}
  /\ form = [u \in Clients |-> NoForm]
  /\ results = [u \in Clients |-> NoResults]
  /\ window = [u \in Clients |-> NoWindow]
  /\ fetches = [u \in Clients |-> NoFetches]
  /\ times = NoTimes

NextSettings ==
  \E u \in Clients :
    \/ OpenSettings(u)
    \/ \E value \in TypedUsernames : TypeUsername(u, value)
    \/ CloseSettings(u)
    \/ SaveCheck(u)
    \/ SaveUpdate(u)
    \/ \E name \in DirectUsernames : ProfilesUpdate(u, u, u, name)

SpecSettings == InitSettings /\ [][NextSettings]_vars

\* the username of an identity's profile row
UsernameOf(ps, i) == {p.username : p \in {q \in ps : q.user_id = i}}

\* C14: handleSave writes the username it was called with lower-cased and
\* stripped of every character outside [a-z0-9_], and a call whose normalised
\* username has fewer than 3 characters writes nothing and does not report
\* success.
C14_NormalizedAndLongEnough ==
  [][\A u \in Clients :
       (ev'.user = u /\ ev'.kind \in {"save_rejected", "save_taken", "save_failed", "save_ok"})
         => LET input == form'[u].captured IN
            /\ profiles' # profiles => UsernameOf(profiles', u) = {Normalize(input)}
            /\ Len(Normalize(input)) < MinUsernameLength
                 => profiles' = profiles /\ ev'.kind # "save_ok"]_vars

\* no two profile rows share a username, none share a user identity
ProfilesUnique(ps) ==
  \A p, q \in ps : (p.username = q.username \/ p.user_id = q.user_id) => p = q

\* C15: usernames and user identities are unique among the profile rows, and a
\* handleSave whose username another identity's row holds, readable by the
\* caller or not, ends without success and leaves the profiles as they were.
C15_UsernameStaysUnique ==
  [][/\ ProfilesUnique(profiles)
     /\ ProfilesUnique(profiles')
     /\ \A u \in Clients :
          (/\ ev'.user = u
           /\ ev'.kind \in {"save_rejected", "save_taken", "save_failed", "save_ok"}
           /\ \E q \in profiles :
                q.user_id # u /\ q.username = Normalize(form'[u].captured))
            => /\ profiles' = profiles
               /\ ev'.kind \in {"save_rejected", "save_taken", "save_failed"}
               /\ ~ ev'.ok]_vars

\* C15 witness: the update was refused for a username held by a profile the
\* caller cannot read, so that the taken-check had found nothing
C15_Witness ==
  /\ ev.kind = "save_failed"
  /\ \E q \in profiles :
       /\ q.user_id # ev.user
       /\ q.username = Normalize(form[ev.user].captured)
       /\ q \notin ProfileRowsVisible(ev.user)

\* ------------------------------------------------------------- uploads
\* String.prototype.startsWith
StartsWith(s, prefix) ==
  Len(s) >= Len(prefix) /\ SubSeq(s, 1, Len(prefix)) = prefix

\* 50 * 1024 * 1024 and 5 * 1024 * 1024
MaxChatMediaBytes == 50 * 1024 * 1024
MaxAvatarBytes == 5 * 1024 * 1024

\* handleFileUpload's two guards: the file goes on when neither returns
ChatMediaAccepts(file) ==
  LET isImage == StartsWith(file.type, "image/")
      isVideo == StartsWith(file.type, "video/")
  IN ~ (~ isImage /\ ~ isVideo) /\ ~ (file.size > MaxChatMediaBytes)

\* mutant: the avatar handler applies the size limit of chat media
AvatarAccepts_ChatLimit(file) ==
  ~ (~ StartsWith(file.type, "image/")) /\ ~ (file.size > MaxChatMediaBytes)
\* handleAvatarUpload's two guards
AvatarAccepts(file) ==
  ~ (~ StartsWith(file.type, "image/")) /\ ~ (file.size > MaxAvatarBytes)

\* "Authenticated users can upload media": WITH CHECK (bucket_id = 'chat-media')
ObjectInsertCheck(uid, bucket) == bucket = "chat-media"

\* objects ever uploaded from the chat window
MaxMediaUploads == 1

\* the files a user picks: MIME types with each of the two prefixes and one
\* that only contains a prefix, and sizes on both sides of both limits
FileTypes == {"image/png", "video/mp4", "x-image/png"}
FileSizes == {MaxAvatarBytes, MaxAvatarBytes + 1, MaxChatMediaBytes, MaxChatMediaBytes + 1}
Files == [type : FileTypes, size : FileSizes]

\* supabase.storage.from('chat-media').upload(`${user.id}/${Date.now()}.${fileExt}`, file)
StorageUpload(u, file) ==
  IF ObjectInsertCheck(u, "chat-media")
  THEN /\ Cardinality({o \in objects : o.name = "media"}) < MaxMediaUploads
       /\ objects' = objects \cup
            {[owner |-> u, name |-> "media",
              stamp |-> Cardinality({o \in objects : o.name = "media"}) + 1,
              file |-> file]}
  ELSE objects' = objects

\* handleFileUpload, up to its first await: the two guards, then the storage
\* upload when the window has a conversationId, else the lookup of
\* fetchOrCreateConversation
ChatUploadStart(u, file) ==
  /\ pc[u] = "idle"
  /\ selectedFriend[u] # NULL
  /\ IF ~ ChatMediaAccepts(file)
     THEN /\ ev' = Ev("upload_rejected", u, selectedFriend[u], NULL, NULL, FALSE)
          /\ UNCHANGED <<pc, arg, form, objects, conversationId, gocLog>>
     ELSE IF conversationId[u] # NULL
     THEN /\ StorageUpload(u, file)
          /\ pc' = [pc EXCEPT ![u] = IF objects' # objects THEN "upload_msg" ELSE "idle"]
          /\ arg' = [arg EXCEPT ![u] =
               IF objects' # objects
                 THEN [NoArg EXCEPT !.target = selectedFriend[u], !.cid = conversationId[u]]
                 ELSE NoArg]
          /\ ev' = IF objects' # objects THEN NoEv
                   ELSE Ev("upload_failed", u, selectedFriend[u], NULL, NULL, FALSE)
          /\ UNCHANGED <<form, conversationId, gocLog>>
     ELSE LET f == selectedFriend[u]
              existing == ConversationLookup(u, f)
          IN /\ form' = [form EXCEPT ![u].file = file]
             /\ ev' = NoEv
             /\ UNCHANGED objects
             /\ IF existing # {}
                THEN /\ conversationId' = [conversationId EXCEPT ![u] = LookupId(existing)]
                     /\ gocLog' = Logged(u, f, LookupId(existing), FALSE)
                     /\ pc' = [pc EXCEPT ![u] = "upload_put"]
                     /\ arg' = [arg EXCEPT ![u] =
                          [NoArg EXCEPT !.target = f, !.cid = LookupId(existing)]]
                ELSE /\ pc' = [pc EXCEPT ![u] = "upload_goc_insert"]
                     /\ arg' = [arg EXCEPT ![u] = [NoArg EXCEPT !.target = f]]
                     /\ UNCHANGED <<conversationId, gocLog>>
  /\ UNCHANGED <<store, notifs, friends, selectedFriend, users, profiles, results, window, fetches, times>>

\* handleFileUpload inside fetchOrCreateConversation: the insert of (user, friend)
UploadGocInsert(u) ==
  /\ pc[u] = "upload_goc_insert"
  /\ LET f == arg[u].target
         row == [id |-> nextId.conversations, participant1_id |-> u, participant2_id |-> f]
     IN IF ConversationInsertCheck(u, row) /\ ConversationUnique(conversations, row)
        THEN /\ nextId.conversations <= MaxConversationId
             /\ conversations' = conversations \cup {row}
             /\ nextId' = Bump("conversations")
             /\ conversationId' = [conversationId EXCEPT ![u] = row.id]
             /\ gocLog' = Logged(u, f, row.id, TRUE)
             /\ ev' = Ev("goc_return", u, f, row.id, NULL, TRUE)
             /\ pc' = [pc EXCEPT ![u] = "upload_put"]
             /\ arg' = [arg EXCEPT ![u] = [NoArg EXCEPT !.target = f, !.cid = row.id]]
             /\ UNCHANGED form
        ELSE /\ gocLog' = Logged(u, f, NULL, TRUE)
             /\ ev' = Ev("goc_return", u, f, NULL, NULL, FALSE)
             /\ pc' = [pc EXCEPT ![u] = "idle"]
             /\ arg' = [arg EXCEPT ![u] = NoArg]
             /\ form' = [form EXCEPT ![u].file = NoForm.file]
             /\ UNCHANGED <<conversations, nextId, conversationId>>
  /\ UNCHANGED <<friendships, notifications, messages, notifs, friends, selectedFriend,
                 users, profiles, objects, results, window, fetches, times>>

\* handleFileUpload: the storage upload after fetchOrCreateConversation returned an id
UploadPut(u) ==
  /\ pc[u] = "upload_put"
  /\ StorageUpload(u, form[u].file)
  /\ pc' = [pc EXCEPT ![u] = IF objects' # objects THEN "upload_msg" ELSE "idle"]
  /\ arg' = [arg EXCEPT ![u] = IF objects' # objects THEN @ ELSE NoArg]
  /\ ev' = IF objects' # objects THEN NoEv
           ELSE Ev("upload_failed", u, arg[u].target, NULL, NULL, FALSE)
  /\ form' = [form EXCEPT ![u].file = NoForm.file]
  /\ UNCHANGED <<store, notifs, friends, selectedFriend, conversationId, gocLog,
                 users, profiles, results, window, fetches, times>>

\* handleFileUpload: the message that carries the media url
UploadMessage(u) ==
  /\ pc[u] = "upload_msg"
  /\ MessageInsert(u, arg[u].cid)
  /\ pc' = [pc EXCEPT ![u] = "idle"]
  /\ arg' = [arg EXCEPT ![u] = NoArg]
  /\ UNCHANGED <<friendships, notifications, conversations,
                 notifs, friends, selectedFriend, conversationId, gocLog>>
  /\ UNCHANGED account

\* handleAvatarUpload, up to its first await: the two guards, then the upload
\* of `${user.id}/avatar.${fileExt}` with upsert.  No policy FOR UPDATE exists
\* on storage.objects, and the source does not say whether the storage service
\* asks for one when the object is already there: both outcomes are taken.
AvatarUploadStart(u, file) ==
  /\ pc[u] = "idle"
  /\ form[u].open
  /\ IF ~ AvatarAccepts(file)
     THEN /\ ev' = Ev("avatar_rejected", u, NULL, NULL, NULL, FALSE)
          /\ UNCHANGED <<pc, objects>>
     ELSE LET old == {o \in objects : o.owner = u /\ o.name = "avatar"}
              put == (objects \ old) \cup
                       {[owner |-> u, name |-> "avatar", stamp |-> 0, file |-> file]}
          IN \/ /\ ObjectInsertCheck(u, "chat-media")
                /\ objects' = put
                /\ pc' = [pc EXCEPT ![u] = "avatar_update"]
                /\ ev' = NoEv
             \/ /\ old # {} \/ ~ ObjectInsertCheck(u, "chat-media")
                /\ ev' = Ev("avatar_failed", u, NULL, NULL, NULL, FALSE)
                /\ UNCHANGED <<pc, objects>>
  /\ UNCHANGED <<store, arg, notifs, friends, selectedFriend, conversationId, gocLog,
                 users, profiles, form, results, window, fetches, times>>

\* handleAvatarUpload: the public url into the caller's profile row
AvatarUpdate(u) ==
  /\ pc[u] = "avatar_update"
  /\ LET hit == ProfileUpdateHit(u, u)
         new == [p \in hit |-> [p EXCEPT !.avatar_url = "avatar"]]
     IN IF ProfileUpdateAccepted(u, hit, new)
        THEN /\ profiles' = (profiles \ hit) \cup {new[p] : p \in hit}
             /\ ev' = Ev("avatar_ok", u, NULL, NULL, NULL, TRUE)
        ELSE /\ ev' = Ev("avatar_failed", u, NULL, NULL, NULL, FALSE)
             /\ UNCHANGED profiles
  /\ pc' = [pc EXCEPT ![u] = "idle"]
  /\ UNCHANGED <<store, arg, notifs, friends, selectedFriend, conversationId, gocLog,
                 users, objects, form, results, window, fetches, times>>

\* the two friends of InitChat after fetchFriends, handleSelectChat and
\* fetchProfile: each has the chat with the other on screen, no conversation
\* yet, and the settings dialog open over it
InitUpload ==
  /\ friendships = {[id |-> 1, requester_id |-> 1, addressee_id |-> 2, status |-> "accepted"]}
  /\ notifications = {[id |-> 1, user_id |-> 2, type |-> "friend_request",
                       from_user_id |-> 1, friendship_id |-> 1, is_read |-> TRUE]}
  /\ conversations = {}
  /\ messages = {}
  /\ nextId = [friendships |-> 2, notifications |-> 2, conversations |-> 1, messages |-> 1]
  /\ pc = [u \in Clients |-> "idle"]
  /\ arg = [u \in Clients |-> NoArg]
  /\ notifs = [u \in Clients |-> {}]
  /\ friends = [u \in Clients |->
       {[user_id |-> f.requester_id + f.addressee_id - u, conversationId |-> NULL] :
          f \in {g \in friendships : FriendshipSelectUsing(u, g)}}]
  /\ selectedFriend = [u \in Clients |-> (CHOOSE fr \in friends[u] : TRUE).user_id]
  /\ conversationId = [u \in Clients |-> NULL]
  /\ gocLog = [p \in Clients \X Clients |-> [rets |-> {}, calls |-> 0, attempts |-> 0]]
  /\ ev = NoEv
  /\ users = Identities
  /\ profiles = {[user_id |-> i, username |-> <<"u", "s", "r">> \o <<DigitOf[i]>>,
                  avatar_url |-> "", gender |-> ""] : i \in Identities}
  /\ objects = {}
  /\ form = [u \in Clients |->
       [NoForm EXCEPT !.open = TRUE, !.loaded = TRUE,
                      !.profile = <<"u", "s", "r">> \o <<DigitOf[u]>>,
                      !.username = <<"u", "s", "r">> \o <<DigitOf[u]>>]]
  /\ results = [u \in Clients |-> NoResults]
  /\ window = [u \in Clients |-> NoWindow]
  /\ fetches = [u \in Clients |-> NoFetches]
  /\ times = NoTimes

NextUpload ==
  \E u \in Clients :
    \/ InitConversation(u)
    \/ GocInsert(u)
    \/ \E file \in Files : ChatUploadStart(u, file)
    \/ UploadGocInsert(u)
    \/ UploadPut(u)
    \/ UploadMessage(u)
    \/ \E file \in Files : AvatarUploadStart(u, file)
    \/ AvatarUpdate(u)

SpecUpload == InitUpload /\ [][NextUpload]_vars

\* C16: every object the chat window stored is an image or a video of at most
\* 50 MiB, every avatar object an image of at most 5 MiB, and a step that
\* rejects a file ends its handler and writes no object, no message and no
\* profile.
C16_UploadsValidated ==
  [][/\ \A o \in objects' :
          /\ o.name = "media" =>
               /\ StartsWith(o.file.type, "image/") \/ StartsWith(o.file.type, "video/")
               /\ o.file.size <= 50 * 1024 * 1024
          /\ o.name = "avatar" =>
               /\ StartsWith(o.file.type, "image/")
               /\ o.file.size <= 5 * 1024 * 1024
     /\ ev'.kind \in {"upload_rejected", "avatar_rejected"} =>
          /\ objects' = objects
          /\ messages' = messages
          /\ profiles' = profiles
          /\ pc'[ev'.user] = "idle"]_vars

\* C16 witness: a file was just rejected by the chat window while the bucket
\* holds a media object of exactly 50 MiB and an avatar of exactly 5 MiB, and
\* the message of the media object is stored
C16_Witness ==
  /\ ev.kind = "upload_rejected"
  /\ \E o \in objects : o.name = "media" /\ o.file.size = MaxChatMediaBytes
  /\ \E o \in objects : o.name = "avatar" /\ o.file.size = MaxAvatarBytes
  /\ messages # {}

\* ------------------------------------------------------------- table-level claims
\* select * from friendships, as uid
FriendshipsSelect(uid) == {f \in friendships : FriendshipSelectUsing(uid, f)}

\* C17: a select on friendships returns a row to its requester or addressee
\* only; an insert is stored only with the caller as requester; a row is
\* changed or removed only by a request of its requester or addressee.
C17_FriendshipsConfined ==
  [][/\ \A uid \in Identities : \A f \in FriendshipsSelect(uid) :
          uid = f.requester_id \/ uid = f.addressee_id
     /\ \A f \in friendships' \ friendships :
          \/ /\ ev'.kind = "friendships_insert" /\ ev'.ok
             /\ f.requester_id = ev'.user
             /\ ~ \E g \in friendships : g.id = f.id
          \/ /\ ev'.kind = "friendships_update"
             /\ \E g \in friendships :
                  g.id = f.id /\ (ev'.user = g.requester_id \/ ev'.user = g.addressee_id)
     /\ \A g \in friendships \ friendships' :
          /\ ev'.kind \in {"friendships_update", "friendships_delete"}
          /\ ev'.user = g.requester_id \/ ev'.user = g.addressee_id
     /\ (ev'.kind = "friendships_insert" /\ ev'.target # ev'.user)
          => ~ ev'.ok /\ friendships' = friendships]_vars

\* C17 witness: an identity that is neither requester nor addressee of a stored
\* row asked for its deletion, the row is still there and the select shows
\* the identity nothing
C17_Witness ==
  /\ ev.kind = "friendships_delete" /\ ~ ev.ok
  /\ \E f \in friendships :
       /\ f.id = ev.id
       /\ ev.user # f.requester_id /\ ev.user # f.addressee_id
  /\ FriendshipsSelect(ev.user) = {}

\* select * from conversations, as uid
ConversationsSelect(uid) == {c \in conversations : ConversationSelectUsing(uid, c)}

\* C18: a select on conversations returns a row to its two participants only;
\* a row is stored only by an insert of one of its participants and removed
\* only by a delete of one of its participants; no request updates a row; a
\* deleted conversation leaves none of its messages behind.
C18_ConversationsConfined ==
  [][/\ \A uid \in Identities : \A c \in ConversationsSelect(uid) :
          uid = c.participant1_id \/ uid = c.participant2_id
     /\ \A c \in conversations' \ conversations :
          /\ ev'.kind = "conversations_insert" /\ ev'.ok
          /\ ev'.user = c.participant1_id \/ ev'.user = c.participant2_id
          /\ ~ \E d \in conversations : d.id = c.id
     /\ \A d \in conversations \ conversations' :
          /\ ev'.kind = "conversations_delete" /\ ev'.ok /\ ev'.id = d.id
          /\ ev'.user = d.participant1_id \/ ev'.user = d.participant2_id
          /\ ~ \E m \in messages' : m.conversation_id = d.id
     /\ ev'.kind = "conversations_update"
          => ~ ev'.ok /\ conversations' = conversations]_vars

\* C18 witness: the only conversation ever stored held a message and has just
\* been deleted by a participant; no conversation and no message is left
C18_Witness ==
  /\ ev.kind = "conversations_delete" /\ ev.ok
  /\ nextId.conversations = 2 /\ nextId.messages > 1
  /\ conversations = {} /\ messages = {}

\* ------------------------------------------------------------- notifications alone
\* select * from notifications, as uid
NotificationsSelect(uid) == {n \in notifications : NotificationSelectUsing(uid, n)}

\* insert into notifications (user_id, type, from_user_id, friendship_id);
\* from_user_id and friendship_id are nullable, friendship_id is a foreign key
NotificationsInsert(uid, recipient, from, fid) ==
  /\ LET row == [id |-> nextId.notifications, user_id |-> recipient,
                 type |-> "friend_request", from_user_id |-> from,
                 friendship_id |-> fid, is_read |-> FALSE]
     IN IF /\ NotificationInsertCheck(uid, row)
           /\ fid = NULL \/ \E f \in friendships : f.id = fid
           /\ ReferencesUser(users, recipient)
           /\ from = NULL \/ ReferencesUser(users, from)
        THEN /\ nextId.notifications <= MaxStoreNotificationId
             /\ notifications' = notifications \cup {row}
             /\ nextId' = Bump("notifications")
             /\ ev' = Ev("notifications_insert", uid, from, row.id, recipient, TRUE)
        ELSE /\ ev' = Ev("notifications_insert", uid, from, NULL, recipient, FALSE)
             /\ UNCHANGED <<notifications, nextId>>
  /\ UNCHANGED <<friendships, conversations, messages, client, gocLog>>
  /\ UNCHANGED account

\* update notifications set is_read = true, user_id = .. where id = ..
\* The filter reads the row, so the select policy applies to the old and to the
\* new row; the update policy's USING is also the check of the new row.
NotificationsUpdate(uid, id, recipient) ==
  /\ LET hit == {n \in notifications : /\ n.id = id
                                      /\ NotificationSelectUsing(uid, n)
                                      /\ NotificationUpdateUsing(uid, n)}
         new(n) == [n EXCEPT !.is_read = TRUE, !.user_id = recipient]
         passes == \A n \in hit : /\ NotificationUpdateUsing(uid, new(n))
                                  /\ NotificationSelectUsing(uid, new(n))
                                  /\ ReferencesUser(users, recipient)
     IN /\ notifications' = IF passes THEN (notifications \ hit) \cup {new(n) : n \in hit}
                                      ELSE notifications
        /\ ev' = Ev("notifications_update", uid, NULL, id, recipient, passes /\ hit # {})
  /\ UNCHANGED <<friendships, conversations, messages, nextId, client, gocLog>>
  /\ UNCHANGED account

\* delete from notifications where id = ..
NotificationsDelete(uid, id) ==
  /\ LET hit == {n \in notifications : /\ n.id = id
                                      /\ NotificationSelectUsing(uid, n)
                                      /\ NotificationDeleteUsing(uid, n)}
     IN /\ notifications' = notifications \ hit
        /\ ev' = Ev("notifications_delete", uid, NULL, id, NULL, hit # {})
  /\ UNCHANGED <<friendships, conversations, messages, nextId, client, gocLog>>
  /\ UNCHANGED account

\* notifications, and the friendships they reference
NextNotificationStore ==
  \E uid \in Identities :
    \/ \E req, addr \in Identities : FriendshipsInsert(uid, req, addr, "pending")
    \/ \E id \in 1..MaxStoreFriendshipId : FriendshipsDelete(uid, id)
    \/ \E recipient \in Identities, from \in Identities \cup {NULL},
          fid \in {NULL} \cup 1..MaxStoreFriendshipId :
         NotificationsInsert(uid, recipient, from, fid)
    \/ \E id \in 1..MaxStoreNotificationId, recipient \in Identities :
         NotificationsUpdate(uid, id, recipient)
    \/ \E id \in 1..MaxStoreNotificationId : NotificationsDelete(uid, id)

SpecNotificationStore == Init /\ [][NextNotificationStore]_vars

\* what no step may do to notifications whoever removes rows: a select shows a
\* row to its recipient only; a row is stored only by an insert whose from_user
\* is the caller; an update changes a row only for its recipient
NotificationsGuarded ==
  /\ \A uid \in Identities : \A n \in NotificationsSelect(uid) : uid = n.user_id
  /\ \A n \in notifications' \ notifications :
       \/ /\ ev'.kind = "notifications_insert" /\ ev'.ok
          /\ n.from_user_id = ev'.user
          /\ ~ \E o \in notifications : o.id = n.id
       \/ /\ ev'.kind = "notifications_update" /\ ev'.ok
          /\ \E o \in notifications : o.id = n.id /\ o.user_id = ev'.user
          /\ n.user_id = ev'.user
  /\ ev'.kind = "notifications_insert" /\ ev'.target # ev'.user
       => ~ ev'.ok /\ notifications' = notifications

\* C19 as stated: an insert on notifications is accepted only with the caller
\* as from_user, and a notification row is read, changed or removed only by a
\* request of its recipient.
C19_OnlyRecipientRemoves ==
  [][/\ NotificationsGuarded
     /\ \A o \in notifications \ notifications' : ev'.user = o.user_id]_vars

\* C19 amended: as stated, except that a row also goes away with the friendship
\* it references (ON DELETE CASCADE), which the friendship's requester or
\* addressee may delete.
C19_RecipientOrCascadeRemoves ==
  [][/\ NotificationsGuarded
     /\ \A o \in notifications \ notifications' :
          \/ /\ ev'.kind \in {"notifications_update", "notifications_delete"}
             /\ ev'.ok /\ ev'.id = o.id
             /\ ev'.user = o.user_id
          \/ /\ ev'.kind = "friendships_delete" /\ ev'.ok
             /\ o.friendship_id = ev'.id
             /\ \E f \in friendships \ friendships' :
                  /\ f.id = ev'.id
                  /\ ev'.user = f.requester_id \/ ev'.user = f.addressee_id]_vars

\* C19 witness: an identity that is not the recipient of the stored row asked
\* for its deletion; the row is still there, unread, and the select shows the
\* identity nothing
C19_Witness ==
  /\ ev.kind = "notifications_delete" /\ ~ ev.ok
  /\ \E n \in notifications : n.id = ev.id /\ n.user_id # ev.user /\ ~ n.is_read
  /\ NotificationsSelect(ev.user) = {}

\* ------------------------------------------------------------- profiles alone
\* insert into profiles (user_id, username)
ProfilesInsert(uid, owner, name) ==
  /\ LET row == [user_id |-> owner, username |-> name, avatar_url |-> "", gender |-> ""]
         accepted == /\ ProfileInsertCheck(uid, row)
                     /\ ProfileUserExists(users, row)
                     /\ ProfileUserUnique(profiles, row)
                     /\ ProfileUsernameUnique(profiles, row)
     IN /\ profiles' = IF accepted THEN profiles \cup {row} ELSE profiles
        /\ ev' = Ev("profiles_insert", uid, owner, NULL, NULL, accepted)
  /\ UNCHANGED <<store, client, gocLog, users, objects, form, results, window, fetches, times>>

\* delete from profiles where user_id = ..
ProfilesDelete(uid, owner) ==
  /\ LET hit == {p \in ProfileRowsVisible(uid) :
                   p.user_id = owner /\ ProfileDeleteUsing(uid, p)}
     IN /\ profiles' = profiles \ hit
        /\ ev' = Ev("profiles_delete", uid, owner, NULL, NULL, hit # {})
  /\ UNCHANGED <<store, client, gocLog, users, objects, form, results, window, fetches, times>>

\* the identity provider deletes a row of auth.users; every column that
\* REFERENCES auth.users(id) ON DELETE CASCADE takes its rows along, and those
\* rows their own dependents
RemoveIdentity(i) ==
  /\ i \in users
  /\ users' = users \ {i}
  /\ profiles' = {p \in profiles : p.user_id # i}
  /\ friendships' = {f \in friendships : f.requester_id # i /\ f.addressee_id # i}
  /\ conversations' = {c \in conversations : c.participant1_id # i /\ c.participant2_id # i}
  /\ messages' = MessagesAfterCascade({m \in messages : m.sender_id # i}, conversations')
  /\ notifications' =
       NotificationsAfterCascade({n \in notifications : n.user_id # i /\ n.from_user_id # i},
                                 friendships')
  /\ ev' = Ev("identity_removed", NULL, i, NULL, NULL, TRUE)
  /\ UNCHANGED <<nextId, client, gocLog, objects, form, results, window, fetches, times>>

\* the usernames sent to the store: the one identity 1 signed up with, and a free one
StoreUsernames == {<<"u", "s", "r", "1">>, <<"n", "e", "w">>}

\* identities 1 and 2 are friends and have their profiles; identity 3 has
\* signed up and not yet stored a profile
InitProfileStore ==
  /\ friendships = {[id |-> 1, requester_id |-> 1, addressee_id |-> 2, status |-> "accepted"]}
  /\ notifications = {[id |-> 1, user_id |-> 2, type |-> "friend_request",
                       from_user_id |-> 1, friendship_id |-> 1, is_read |-> TRUE]}
  /\ conversations = {}
  /\ messages = {}
  /\ nextId = [friendships |-> 2, notifications |-> 2, conversations |-> 1, messages |-> 1]
  /\ pc = [u \in Clients |-> "idle"]
  /\ arg = [u \in Clients |-> NoArg]
  /\ notifs = [u \in Clients |-> {}]
  /\ friends = [u \in Clients |-> {}]
  /\ selectedFriend = [u \in Clients |-> NULL]
  /\ conversationId = [u \in Clients |-> NULL]
  /\ gocLog = [p \in Clients \X Clients |-> [rets |-> {}, calls |-> 0, attempts |-> 0]]
  /\ ev = NoEv
  /\ users = Identities
  /\ profiles = {[user_id |-> i, username |-> <<"u", "s", "r">> \o <<DigitOf[i]>>,
                  avatar_url |-> "", gender |-> ""] : i \in Identities \ {NumIdentities}}
  /\ objects = {}
  /\ form = [u \in Clients |-> NoForm]
  /\ results = [u \in Clients |-> NoResults]
  /\ window = [u \in Clients |-> NoWindow]
  /\ fetches = [u \in Clients |-> NoFetches]
  /\ times = NoTimes

NextProfileStore ==
  \/ \E uid, owner \in Identities :
       \/ \E name \in StoreUsernames : ProfilesInsert(uid, owner, name)
       \/ \E newOwner \in Identities, name \in StoreUsernames :
            ProfilesUpdate(uid, owner, newOwner, name)
       \/ ProfilesDelete(uid, owner)
  \/ \E i \in Identities : RemoveIdentity(i)

SpecProfileStore == InitProfileStore /\ [][NextProfileStore]_vars

\* C20: a profile row is stored or changed only by a request of the identity it
\* belongs to, before and after the write; no request deletes one; a row goes
\* away only with its identity.
C20_ProfileOwnedByItsIdentity ==
  [][/\ \A p \in profiles' \ profiles :
          /\ ev'.kind \in {"profiles_insert", "profiles_update"} /\ ev'.ok
          /\ p.user_id = ev'.user
          /\ \A q \in profiles : q.user_id = p.user_id =>
               ev'.kind = "profiles_update" /\ q \notin profiles'
     /\ \A q \in profiles \ profiles' :
          \/ /\ ev'.kind = "profiles_update" /\ ev'.ok
             /\ q.user_id = ev'.user
             /\ \E p \in profiles' : p.user_id = q.user_id
          \/ /\ ev'.kind = "identity_removed"
             /\ ev'.target = q.user_id /\ q.user_id \notin users'
     /\ ev'.kind = "profiles_delete" => ~ ev'.ok /\ profiles' = profiles
     /\ ev'.kind \in {"profiles_insert", "profiles_update"} /\ ev'.target # ev'.user
          => ~ ev'.ok /\ profiles' = profiles]_vars

\* C20 witness: identity 1 was removed and its profile went with it, while the
\* profile of identity 2, which identity 1 could read, is as it was at sign-up
C20_Witness ==
  /\ ev.kind = "identity_removed" /\ ev.target = 1
  /\ 1 \notin users /\ ~ \E p \in profiles : p.user_id = 1
  /\ \E p \in profiles : p.user_id = 2 /\ p.username = <<"u", "s", "r", "2">>

\* ------------------------------------------------------------- failure reporting
\* C21: a friendship operation whose store write is rejected reports a failure
\* and no success; sendFriendRequest reports success only in a step whose
\* notification insert stored the row that names the new friendship.
C21_SuccessMeansNotificationStored ==
  [][ev'.kind = "sfr_success" =>
       \E n \in notifications' \ notifications :
         /\ n.friendship_id = ev'.id
         /\ n.from_user_id = ev'.user
         /\ n.user_id = ev'.target]_vars

\* ------------------------------------------------------------- blocking
\* C22: once blockUser(A,B) has completed, no sendMessage by B into a
\* conversation with A is accepted; here for the step that follows the block
\* at once, with the pair's friendship row stored as blocked.
C22_BlockedCannotSend ==
  [][(/\ ev.kind = "blocked"
      /\ \E f \in friendships :
           f.status = "blocked" /\ FriendshipPairFilter(ev.user, ev.target, f))
       => ~ (/\ ev'.kind = "msg_sent"
             /\ ev'.user = ev.target /\ ev'.target = ev.user
             /\ \E c \in conversations' :
                  c.id = ev'.id2 /\ ConversationPairFilter(ev.user, ev.target, c)
             /\ \E m \in messages' \ messages : m.sender_id = ev.target)]_vars

\* ------------------------------------------------------------- referential integrity
\* every table at once: each identity writes rows that name itself, deletes
\* rows, and the identity provider removes identities
NextIntegrity ==
  \/ \E uid \in Identities :
       \/ \E addr \in Identities : FriendshipsInsert(uid, uid, addr, "pending")
       \/ \E id \in 1..MaxStoreFriendshipId : FriendshipsDelete(uid, id)
       \/ \E p2 \in Identities : ConversationsInsert(uid, uid, p2)
       \/ \E id \in 1..MaxConversationId : ConversationsDelete(uid, id)
       \/ \E cid \in 1..MaxConversationId : MessagesInsert(uid, cid, uid)
       \/ \E recipient \in Identities, fid \in {NULL} \cup 1..MaxStoreFriendshipId :
            NotificationsInsert(uid, recipient, uid, fid)
       \/ \E name \in StoreUsernames : ProfilesInsert(uid, uid, name)
  \/ \E i \in Identities : RemoveIdentity(i)

SpecIntegrity == InitProfileStore /\ [][NextIntegrity]_vars

\* the rows of every table that name identity i
RowsOf(i) ==
  [profiles |-> {p \in profiles : p.user_id = i},
   friendships |-> {f \in friendships : f.requester_id = i \/ f.addressee_id = i},
   conversations |-> {c \in conversations : c.participant1_id = i \/ c.participant2_id = i},
   messages |-> {m \in messages : m.sender_id = i},
   notifications |-> {n \in notifications : n.user_id = i \/ n.from_user_id = i}]

NoRows == [profiles |-> {}, friendships |-> {}, conversations |-> {}, messages |-> {},
           notifications |-> {}]

UpdateVerdict(uid, name, ps, fs) ==
  LET hit == {p \in ps : /\ ProfileSelectUsing(uid, p.user_id, fs)
                         /\ p.user_id = uid
                         /\ ProfileUpdateUsing(uid, p)}
      new(p) == [p EXCEPT !.username = name]
  IN \A p \in hit : /\ ProfileUpdateUsing(uid, new(p))
                    /\ name = p.username \/ ProfileUsernameUnique(ps \ {p}, new(p))

\* C24: the outcome of a caller's write is the same in two stores that differ
\* only in a row the caller may not select; here the outcome handleSave
\* reports, against the store without one profile row hidden from the caller.
C24_DeniedRowLooksAbsent ==
  [][ev'.kind \in {"save_ok", "save_failed"} =>
       \A p \in profiles :
         ~ ProfileSelectUsing(ev'.user, p.user_id, friendships) =>
           UpdateVerdict(ev'.user, Normalize(form[ev'.user].captured),
                         profiles \ {p}, friendships) = ev'.ok]_vars

\* ------------------------------------------------------------- friendship lifecycle
\* C25: a friendship row goes from pending to accepted only by a request of
\* its addressee.
C25_OnlyAddresseeAccepts ==
  [][\A f \in friendships, g \in friendships' :
       (f.id = g.id /\ f.status = "pending" /\ g.status = "accepted")
         => ev'.user = f.addressee_id]_vars

\* C26: handleFriendRequest changes friendships only when the row its
\* notification names is pending at that moment.
C26_AnswerOnlyPending ==
  [][(ev'.kind = "resp_written" /\ friendships' # friendships)
       => \E f \in friendships : f.id = ev'.id /\ f.status = "pending"]_vars

\* ------------------------------------------------------------- conversations of a pair
\* C27: when a conversation of the pair exists, fetchOrCreateConversation
\* returns an existing one and inserts nothing; so a call goes on from its
\* lookup to its insert only when the store holds no conversation of the pair.
C27_ExistingConversationReturned ==
  [][\A u \in Clients :
       (pc[u] = "idle" /\ pc'[u] = "goc_insert")
         => ~ \E c \in conversations : ConversationPairFilter(u, arg'[u].target, c)]_vars

\* ------------------------------------------------------------- switching chats
\* client 1 is friends with identities 2 and 3, client 2 with identity 1
InitSwitch ==
  /\ friendships = {[id |-> 1, requester_id |-> 1, addressee_id |-> 2, status |-> "accepted"],
                    [id |-> 2, requester_id |-> 3, addressee_id |-> 1, status |-> "accepted"]}
  /\ notifications = {[id |-> 1, user_id |-> 2, type |-> "friend_request",
                       from_user_id |-> 1, friendship_id |-> 1, is_read |-> TRUE],
                      [id |-> 2, user_id |-> 1, type |-> "friend_request",
                       from_user_id |-> 3, friendship_id |-> 2, is_read |-> TRUE]}
  /\ conversations = {}
  /\ messages = {}
  /\ nextId = [friendships |-> 3, notifications |-> 3, conversations |-> 1, messages |-> 1]
  /\ pc = [u \in Clients |-> "idle"]
  /\ arg = [u \in Clients |-> NoArg]
  /\ notifs = [u \in Clients |-> {}]
  /\ friends = [u \in Clients |-> {}]
  /\ selectedFriend = [u \in Clients |-> NULL]
  /\ conversationId = [u \in Clients |-> NULL]
  /\ gocLog = [p \in Clients \X Clients |-> [rets |-> {}, calls |-> 0, attempts |-> 0]]
  /\ ev = NoEv
  /\ SignedUp

\* the chat list and the chat window, without unfriend and block
NextSwitch ==
  \E u \in Clients :
    \/ FetchFriends(u)
    \/ \E fr \in friends[u] : SelectChat(u, fr)
    \/ Back(u)
    \/ InitConversation(u)
    \/ GocInsert(u)
    \/ SendMessage(u)
    \/ SendInsert(u)

SpecSwitch == InitSwitch /\ [][NextSwitch]_vars

\* C28: a message sent from the chat window while it shows friend F is stored
\* in a conversation of the sender and F.
C28_MessageGoesToShownFriend ==
  ev.kind = "msg_sent" =>
    \E c \in conversations :
      c.id = ev.id2 /\ ConversationPairFilter(ev.user, ev.target, c)

\* ------------------------------------------------------------- the message list
\* .order('created_at', { ascending: true }): ids are handed out in creation order
RECURSIVE Ascending(_)
Ascending(ids) ==
  IF ids = {} THEN <<>>
  ELSE LET first == CHOOSE i \in ids : \A j \in ids : i <= j
       IN <<first>> \o Ascending(ids \ {first})

\* the ids of the messages of conversation cid that a select by uid returns
ConversationMessages(uid, cid) ==
  {m.id : m \in {x \in MessagesSelect(uid) : x.conversation_id = cid}}

\* the init effect of a mounted window, up to its first await: the lookup of
\* fetchOrCreateConversation; with a conversation found, fetchMessages is next
InitEffect(u) ==
  /\ pc[u] = "idle"
  /\ selectedFriend[u] # NULL
  /\ window[u].loading
  /\ LET f == selectedFriend[u]
         existing == ConversationLookup(u, f)
     IN IF existing = {}
        THEN GocLookup(u, FALSE)
        ELSE /\ conversationId' = [conversationId EXCEPT ![u] = LookupId(existing)]
             /\ gocLog' = Logged(u, f, LookupId(existing), FALSE)
             /\ ev' = Ev("goc_return", u, f, LookupId(existing), NULL, TRUE)
             /\ pc' = [pc EXCEPT ![u] = "fetch_messages"]
             /\ arg' = [arg EXCEPT ![u] = [NoArg EXCEPT !.target = f,
                                                        !.cid = LookupId(existing)]]
             /\ UNCHANGED <<store, notifs, friends, selectedFriend>>
             /\ UNCHANGED account

\* fetchMessages: the store answers the select with the rows committed by now
FetchMessages(u) ==
  /\ pc[u] = "fetch_messages"
  /\ window' = [window EXCEPT ![u].reply = Ascending(ConversationMessages(u, arg[u].cid))]
  /\ pc' = [pc EXCEPT ![u] = "fetch_set"]
  /\ ev' = NoEv
  /\ UNCHANGED <<store, arg, notifs, friends, selectedFriend, conversationId, gocLog,
                 users, profiles, objects, form, results, fetches, times>>

\* fetchMessages: the answer arrives; setMessages(data) replaces the list
FetchMessagesSet(u) ==
  /\ pc[u] = "fetch_set"
  /\ window' = [window EXCEPT ![u].messages = window[u].reply, ![u].reply = <<>>,
                              ![u].loading = FALSE]
  /\ pc' = [pc EXCEPT ![u] = "idle"]
  /\ arg' = [arg EXCEPT ![u] = NoArg]
  /\ ev' = Ev("fetched", u, selectedFriend[u], NULL, conversationId[u], TRUE)
  /\ UNCHANGED <<store, notifs, friends, selectedFriend, conversationId, gocLog,
                 users, profiles, objects, form, results, fetches, times>>

\* the subscription effect: once conversationId is set, the channel for it is
\* joined; it carries the inserts committed from then on
Subscribe(u) ==
  /\ selectedFriend[u] # NULL
  /\ conversationId[u] # NULL
  /\ window[u].channel # conversationId[u]
  /\ window' = [window EXCEPT ![u].channel = conversationId[u],
                              ![u].since = nextId.messages, ![u].delivered = {}]
  /\ ev' = NoEv
  /\ UNCHANGED <<store, client, gocLog, users, profiles, objects, form, results, fetches, times>>

\* the channel's callback for the INSERT of m: the row is appended to the list
Deliver(u, m) ==
  /\ window[u].channel # NULL
  /\ m.conversation_id = window[u].channel
  /\ MessageSelectUsing(u, m, conversations)
  /\ m.id >= window[u].since
  /\ m.id \notin window[u].delivered
  /\ window' = [window EXCEPT ![u].messages = Append(@, m.id),
                              ![u].delivered = @ \cup {m.id}]
  /\ ev' = Ev("delivered", u, NULL, m.id, m.conversation_id, TRUE)
  /\ UNCHANGED <<store, client, gocLog, users, profiles, objects, form, results, fetches, times>>

\* friends 1 and 2 have conversation 1; each has fetched its chat list and has
\* just opened the chat with the other
InitWindow ==
  /\ friendships = {[id |-> 1, requester_id |-> 1, addressee_id |-> 2, status |-> "accepted"]}
  /\ notifications = {[id |-> 1, user_id |-> 2, type |-> "friend_request",
                       from_user_id |-> 1, friendship_id |-> 1, is_read |-> TRUE]}
  /\ conversations = {[id |-> 1, participant1_id |-> 1, participant2_id |-> 2]}
  /\ messages = {}
  /\ nextId = [friendships |-> 2, notifications |-> 2, conversations |-> 2, messages |-> 1]
  /\ pc = [u \in Clients |-> "idle"]
  /\ arg = [u \in Clients |-> NoArg]
  /\ notifs = [u \in Clients |-> {}]
  /\ friends = [u \in Clients |-> {[user_id |-> 3 - u, conversationId |-> 1]}]
  /\ selectedFriend = [u \in Clients |-> 3 - u]
  /\ conversationId = [u \in Clients |-> 1]
  /\ gocLog = [p \in Clients \X Clients |-> [rets |-> {}, calls |-> 0, attempts |-> 0]]
  /\ ev = NoEv
  /\ SignedUp

NextWindow ==
  \E u \in Clients :
    \/ InitEffect(u)
    \/ FetchMessages(u)
    \/ FetchMessagesSet(u)
    \/ Subscribe(u)
    \/ \E m \in messages : Deliver(u, m)
    \/ SendMessage(u)

SpecWindow == InitWindow /\ [][NextWindow]_vars

\* the window of u has loaded, its channel is joined and has delivered every
\* insert it carries
Settled(u) ==
  /\ pc[u] = "idle"
  /\ ~ window[u].loading
  /\ window[u].channel = conversationId[u]
  /\ \A m \in messages :
       (m.conversation_id = window[u].channel /\ m.id >= window[u].since)
         => m.id \in window[u].delivered

\* C29: once the window has loaded and every change event is delivered, its
\* list holds each committed message of the conversation once, in creation order.
C29_ListIsTheConversation ==
  \A u \in Clients :
    Settled(u) =>
      window[u].messages = Ascending(ConversationMessages(u, conversationId[u]))

\* ------------------------------------------------------------- self-friendship
\* C30: no friendship row has its requester as its addressee.
C30_NoSelfFriendship ==
  \A f \in friendships : f.requester_id # f.addressee_id

\* ------------------------------------------------------------- the chat list
\* the friendship rows a subscription of u on the friendships table reports on
VisibleFriendships(u) == {f \in friendships : FriendshipSelectUsing(u, f)}

\* the first query of fetchFriends: the accepted friendships of u, mapped to
\* the other side's id
FriendUserIds(u) ==
  {IF f.requester_id = u THEN f.addressee_id ELSE f.requester_id :
     f \in {r \in VisibleFriendships(u) :
              r.status = "accepted" /\ (r.requester_id = u \/ r.addressee_id = u)}}

\* fetchFriends is called on mount and by the callback of a change event; the
\* call runs to its first await, the friendships query, and with no friend it
\* sets the empty list and returns
FetchFriendsStart(u) ==
  /\ fetches[u].started = 0 \/ fetches[u].lastSeen # VisibleFriendships(u)
  /\ LET ids == FriendUserIds(u)
         call == [seq |-> fetches[u].started + 1, stage |-> "profiles",
                  friendUserIds |-> ids, profiles |-> {}]
     IN /\ fetches' = [fetches EXCEPT ![u] =
             [running |-> IF ids = {} THEN @.running ELSE @.running \cup {call},
              started |-> @.started + 1,
              lastSeen |-> VisibleFriendships(u)]]
        /\ friends' = [friends EXCEPT ![u] = IF ids = {} THEN {} ELSE @]
  /\ ev' = Ev("fetch_started", u, NULL, fetches[u].started + 1, NULL, TRUE)
  /\ UNCHANGED <<store, pc, arg, notifs, selectedFriend, conversationId, gocLog>>
  /\ UNCHANGED <<users, profiles, objects, form, results, window, times>>

\* the second await of a call: the profiles of the ids it read
FetchFriendsProfiles(u, call) ==
  /\ call \in fetches[u].running
  /\ call.stage = "profiles"
  /\ fetches' = [fetches EXCEPT ![u].running =
       (@ \ {call}) \cup
         {[call EXCEPT !.stage = "conversations",
                       !.profiles = ProfileSelect(u, friendships) \cap call.friendUserIds]}]
  /\ ev' = NoEv
  /\ UNCHANGED <<store, pc, arg, notifs, friends, selectedFriend, conversationId, gocLog>>
  /\ UNCHANGED <<users, profiles, objects, form, results, window, times>>

\* the last awaits of a call: each profile's conversation, then setFriends
FetchFriendsSet(u, call) ==
  /\ call \in fetches[u].running
  /\ call.stage = "conversations"
  /\ friends' = [friends EXCEPT ![u] =
       {[user_id |-> p, conversationId |-> LookupId(ConversationLookup(u, p))] :
          p \in call.profiles}]
  /\ fetches' = [fetches EXCEPT ![u].running = @ \ {call}]
  /\ ev' = Ev("friends_set", u, NULL, call.seq, NULL, TRUE)
  /\ UNCHANGED <<store, pc, arg, notifs, selectedFriend, conversationId, gocLog>>
  /\ UNCHANGED <<users, profiles, objects, form, results, window, times>>

\* two friends with their chat lists not yet mounted; each may open the chat
\* with the other, go back, remove or block the other
NextList ==
  \E u \in Clients :
    \/ FetchFriendsStart(u)
    \/ \E call \in fetches[u].running : FetchFriendsProfiles(u, call)
    \/ \E call \in fetches[u].running : FetchFriendsSet(u, call)
    \/ \E fr \in friends[u] : SelectChat(u, fr)
    \/ Back(u)
    \/ RemoveFriend(u)
    \/ BlockUser(u)

SpecList == InitChat /\ [][NextList]_vars

\* the list of u has been fetched, no call of fetchFriends is running, and the
\* latest call was made on the friendships the store holds now
ListSettled(u) ==
  /\ fetches[u].started > 0
  /\ fetches[u].running = {}
  /\ fetches[u].lastSeen = VisibleFriendships(u)

\* C31: once the change events have stopped and every call of fetchFriends has
\* completed, the chat list shows exactly the users with an accepted friendship
\* with the current user in the latest store state.
C31_ListIsTheAcceptedFriends ==
  \A u \in Clients :
    ListSettled(u) => {fr.user_id : fr \in friends[u]} = FriendUserIds(u)

\* ------------------------------------------------------------- timestamps
\* the readings the clock takes here, and the values a request may carry
MaxTime == 2

\* the tables declared with an updated_at column beside created_at
HasUpdatedAt(t) == t \in {"profiles", "friendships", "conversations"}

\* the tables with a BEFORE UPDATE trigger running update_updated_at_column
HasTouchTrigger(t) == t \in {"profiles", "friendships", "conversations"}

\* the tables with a policy FOR UPDATE, whose rows a caller can update
HasUpdatePolicy(t) == t \in {"profiles", "friendships", "messages", "notifications"}

\* the tables in the order of their CREATE TABLE statements
TableNo(t) ==
  CASE t = "profiles" -> 1 [] t = "friendships" -> 2 [] t = "conversations" -> 3
    [] t = "messages" -> 4 [] t = "notifications" -> 5

\* update_updated_at_column: NEW.updated_at = now()
update_updated_at_column(new, now) == [new EXCEPT !.updated_at = now]

\* time passes between two statements
Tick ==
  /\ times.now < MaxTime
  /\ times' = [times EXCEPT !.now = @ + 1]
  /\ ev' = NoEv
  /\ UNCHANGED <<store, client, gocLog>>
  /\ UNCHANGED <<users, profiles, objects, form, results, window, fetches>>

\* INSERT into table t: a column the request leaves out (NULL here) takes its
\* DEFAULT now(), a column it names takes the value given; messages and
\* notifications have no updated_at to name
RowInsert(t, created, updated) ==
  /\ times.rows[t] = NoRow
  /\ updated # NULL => HasUpdatedAt(t)
  /\ times' = [times EXCEPT !.rows[t] =
       [created_at |-> IF created = NULL THEN times.now ELSE created,
        updated_at |-> IF ~ HasUpdatedAt(t) THEN NULL
                       ELSE IF updated = NULL THEN times.now ELSE updated]]
  /\ ev' = Ev("row_inserted", NULL, NULL, TableNo(t), NULL, TRUE)
  /\ UNCHANGED <<store, client, gocLog>>
  /\ UNCHANGED <<users, profiles, objects, form, results, window, fetches>>

\* UPDATE of the row of table t: the columns the request names are assigned,
\* then the table's trigger, if it has one, stamps updated_at
RowUpdate(t, created, updated) ==
  /\ times.rows[t] # NoRow
  /\ HasUpdatePolicy(t)
  /\ updated # NULL => HasUpdatedAt(t)
  /\ LET old == times.rows[t]
         new == [created_at |-> IF created = NULL THEN old.created_at ELSE created,
                 updated_at |-> IF updated = NULL THEN old.updated_at ELSE updated]
     IN times' = [times EXCEPT !.rows[t] =
          IF HasTouchTrigger(t) THEN update_updated_at_column(new, times.now) ELSE new]
  /\ ev' = Ev("row_updated", NULL, NULL, TableNo(t), NULL, TRUE)
  /\ UNCHANGED <<store, client, gocLog>>
  /\ UNCHANGED <<users, profiles, objects, form, results, window, fetches>>

NextTimestamps ==
  \/ Tick
  \/ \E t \in Tables : \E created, updated \in {NULL} \cup (1..MaxTime) :
       \/ RowInsert(t, created, updated)
       \/ RowUpdate(t, created, updated)

SpecTimestamps == Init /\ [][NextTimestamps]_vars

\* C32: in each of the five tables every successful update of a row sets the
\* row's update timestamp to the time of the update, the update timestamp is
\* never earlier than the creation timestamp, and it never decreases.
C32_UpdateAdvancesTimestamp ==
  [][\A t \in Tables :
       LET old == times.rows[t]
           new == times'.rows[t]
       IN /\ (ev'.kind = "row_updated" /\ ev'.id = TableNo(t)) => new.updated_at = times'.now
          /\ new # NoRow => new.updated_at >= new.created_at
          /\ (old # NoRow /\ new # NoRow) => new.updated_at >= old.updated_at]_vars

====
